---- MODULE Spec2Model ----
(***************************************************************************)
(* Reconciliation pipeline of the financial data analyzer.                 *)
(*                                                                         *)
(* Two programs are modelled over the same loaded workbooks:               *)
(*   - FinancialDataAnalyzer (src/src/financial_analyzer.py):              *)
(*     parse_transactions, then find_matching_transactions;                *)
(*   - AdvancedTransactionParser + DataReconciler (src/src/phase2_parser.py *)
(*     and src/src/phase3_reconciler.py), driven as in src/full_analysis.py.*)
(*                                                                         *)
(* Conventions.                                                            *)
(*   Text is a sequence of one-character strings.                          *)
(*   A timestamp is an integer count of 1/UnitsPerDay days, so a value     *)
(*   carries a time of day; timedelta.days is floor division.              *)
(*   An amount is an integer number of cents.  Every amount of the input   *)
(*   domain is a multiple of 25 cents, for which IEEE double arithmetic    *)
(*   is exact, so integer arithmetic is the arithmetic of the code.        *)
(*   A transaction instance is identified by its position in the list      *)
(*   that holds it; == on dataclasses compares field values.               *)
(***************************************************************************)
EXTENDS Integers, Sequences, FiniteSets, TLC

VARIABLES
    bank_data,               \* FinancialDataAnalyzer.bank_data: the rows of the bank sheet
    ledger_data,             \* FinancialDataAnalyzer.ledger_data: the rows of the ledger sheet
    transactions,            \* FinancialDataAnalyzer.transactions
    reconciliation_results,  \* FinancialDataAnalyzer.reconciliation_results
    bank_transactions,       \* full_analysis.py: bank_transactions
    ledger_transactions,     \* full_analysis.py: ledger_transactions
    matches,                 \* full_analysis.py: matches
    pc,                      \* position of the driving script
    last_call,               \* arguments of the latest reconciliation call, and
                             \* whether they repeat those of the call before
    calls,                   \* number of reconciliation calls made so far
    fp_value,                \* the string an amount or date parser is called with
    fp_parsed,               \* FormatParser.parse_amount: the value returned
    cleaned_amount,          \* AdvancedTransactionParser.clean_amount: the value returned
    fp_date,                 \* FormatParser.parse_date: the value returned
    store,                   \* FinancialDataStore: strategy and state of its backend
    table,                   \* the caller's DataFrame, as it is now
    stored,                  \* the table the latest store_data was given, as it was then
    output,                  \* what the latest query_data / aggregate_data call returned
    series,                  \* DataTypeDetector.detect_column_type: the arguments
    detection                \* DataTypeDetector.detect_column_type: the results computed

pipeline_vars == <<bank_data, ledger_data, transactions, reconciliation_results,
                   bank_transactions, ledger_transactions, matches, last_call, calls>>

format_vars == <<fp_value, fp_parsed, cleaned_amount, fp_date>>

store_vars == <<store, table, stored, output>>

detect_vars == <<series, detection>>

vars == <<pipeline_vars, pc, format_vars, store_vars, detect_vars>>

(***************************************************************************)
(* Bounds of the model.                                                    *)
(***************************************************************************)
MaxBank == 2
MaxLedger == 2
MaxTime == 2
UnitsPerDay == 2
MaxTolDays == 1
MaxDirtyRows == 4
MaxDateRows == 2
MaxCalls == 2

\* rows of a stored table
MaxRows == 2

\* tables one store is given, one after the other
MaxStores == 2

\* filters of one query
MaxFilters == 2

\* cells of a column the detector is given
MaxCells == 3

(***************************************************************************)
(* Generic helpers.                                                        *)
(***************************************************************************)
Abs(x) == IF x < 0 THEN -x ELSE x

Max2(x, y) == IF x >= y THEN x ELSE y

Range(s) == {s[i] : i \in 1..Len(s)}

RECURSIVE SumSeq(_)
SumSeq(s) == IF s = <<>> THEN 0 ELSE Head(s) + SumSeq(Tail(s))

\* s[lo..hi] with Python's clipping of the upper end
Slice(s, lo, hi) == [i \in 1..(IF hi > Len(s) THEN Len(s) ELSE hi) - lo + 1 |-> s[lo + i - 1]]

\* the position list.remove(x) removes: the first element equal to x by field values
FirstEqual(txs, lst, x) ==
    CHOOSE k \in 1..Len(lst) : txs[lst[k]] = txs[x] /\ \A m \in 1..(k - 1) : txs[lst[m]] # txs[x]

RemoveAt(lst, k) == [i \in 1..(Len(lst) - 1) |-> IF i < k THEN lst[i] ELSE lst[i + 1]]

(***************************************************************************)
(* Text.                                                                   *)
(***************************************************************************)
\* str.lower() on one character
lower(c) ==
    CASE c = "A" -> "a" [] c = "B" -> "b" [] c = "C" -> "c" [] c = "D" -> "d"
      [] c = "E" -> "e" [] c = "F" -> "f" [] c = "G" -> "g" [] c = "H" -> "h"
      [] c = "I" -> "i" [] c = "J" -> "j" [] c = "K" -> "k" [] c = "L" -> "l"
      [] c = "M" -> "m" [] c = "N" -> "n" [] c = "O" -> "o" [] c = "P" -> "p"
      [] c = "Q" -> "q" [] c = "R" -> "r" [] c = "S" -> "s" [] c = "T" -> "t"
      [] c = "U" -> "u" [] c = "V" -> "v" [] c = "W" -> "w" [] c = "X" -> "x"
      [] c = "Y" -> "y" [] c = "Z" -> "z" [] OTHER -> c

\* str.split(): the maximal runs of non-whitespace characters
RECURSIVE split(_)
split(s) ==
    IF s = <<>> THEN <<>>
    ELSE IF Head(s) = " " THEN split(Tail(s))
    ELSE LET stop == IF \E i \in 1..Len(s) : s[i] = " "
                     THEN (CHOOSE i \in 1..Len(s) : s[i] = " " /\ \A j \in 1..(i - 1) : s[j] # " ")
                     ELSE Len(s) + 1
         IN <<SubSeq(s, 1, stop - 1)>> \o split(SubSeq(s, stop, Len(s)))

Str_Rent_A == <<"R","e","n","t"," ","A">>
Str_Rent_B == <<"R","e","n","t"," ","B">>
Str_ACH == <<"A","C","H"," ","P","a","y","m","e","n","t"," ","-"," ",
             "U","t","i","l","i","t","i","e","s">>
Str_Util == <<"U","t","i","l","i","t","i","e","s"," ","P","a","y","m","e","n","t">>

(***************************************************************************)
(* difflib.SequenceMatcher(None, a, b), as used by fuzz.partial_ratio      *)
(* (no junk; autojunk only applies from 200 characters).                   *)
(***************************************************************************)
\* length of the common run of a from i and b from j, inside a[..ahi], b[..bhi]
RECURSIVE MatchLen(_, _, _, _, _, _)
MatchLen(a, b, i, j, ahi, bhi) ==
    IF i <= ahi /\ j <= bhi /\ a[i] = b[j]
    THEN 1 + MatchLen(a, b, i + 1, j + 1, ahi, bhi)
    ELSE 0

\* the longest matching block of a[alo..ahi] and b[blo..bhi]: of all maximal
\* blocks the one starting earliest in a, and of those the earliest in b
find_longest_match(a, b, alo, ahi, blo, bhi) ==
    LET sized == {<<p[1], p[2], MatchLen(a, b, p[1], p[2], ahi, bhi)>> :
                     p \in (alo..ahi) \X (blo..bhi)}
        best(found) ==
            IF found = {} THEN <<alo, blo, 0>>
            ELSE CHOOSE m \in found :
                     \A o \in found :
                         \/ m[3] > o[3]
                         \/ m[3] = o[3] /\ m[1] < o[1]
                         \/ m[3] = o[3] /\ m[1] = o[1] /\ m[2] <= o[2]
    IN best({m \in sized : m[3] > 0})

\* the matching blocks <<i, j, k>> with k > 0, found by recursing on both sides
RECURSIVE MatchingBlocks(_, _, _, _, _, _)
MatchingBlocks(a, b, alo, ahi, blo, bhi) ==
    LET around(i, j, k) ==
            IF k = 0 THEN {}
            ELSE {<<i, j, k>>}
                 \cup (IF alo < i /\ blo < j
                       THEN MatchingBlocks(a, b, alo, i - 1, blo, j - 1) ELSE {})
                 \cup (IF i + k <= ahi /\ j + k <= bhi
                       THEN MatchingBlocks(a, b, i + k, ahi, j + k, bhi) ELSE {})
        block(m) == around(m[1], m[2], m[3])
    IN block(find_longest_match(a, b, alo, ahi, blo, bhi))

\* get_matching_blocks(): the blocks and the terminating <<len(a), len(b), 0>>,
\* zero-based as in Python
get_matching_blocks(a, b) ==
    {<<m[1] - 1, m[2] - 1, m[3]>> : m \in MatchingBlocks(a, b, 1, Len(a), 1, Len(b))}
    \cup {<<Len(a), Len(b), 0>>}

RECURSIVE SumSizes(_)
SumSizes(blocks) ==
    IF blocks = {} THEN 0
    ELSE LET m == CHOOSE x \in blocks : TRUE
         IN m[3] + SumSizes(blocks \ {m})

\* ratio() = 2.0 * M / T as the exact fraction <<2M, T>> (1.0 when T = 0)
ratio(a, b) ==
    IF Len(a) + Len(b) = 0 THEN <<1, 1>>
    ELSE <<2 * SumSizes(get_matching_blocks(a, b)), Len(a) + Len(b)>>

\* int(round(100 * n / d)): Python 3 rounds halves to the even neighbour
intr(n, d) ==
    LET q == (100 * n) \div d
        r == (100 * n) % d
    IN IF 2 * r > d THEN q + 1
       ELSE IF 2 * r < d THEN q
       ELSE IF q % 2 = 0 THEN q ELSE q + 1

\* fuzzywuzzy fuzz.partial_ratio(s1, s2)
partial_ratio(s1, s2) ==
    IF s1 = s2 THEN 100
    ELSE IF Len(s1) = 0 \/ Len(s2) = 0 THEN 0
    ELSE LET shorter == IF Len(s1) <= Len(s2) THEN s1 ELSE s2
             longer == IF Len(s1) <= Len(s2) THEN s2 ELSE s1
             long_start(m) == IF m[2] - m[1] > 0 THEN m[2] - m[1] ELSE 0
             window(start) == Slice(longer, start + 1, start + Len(shorter))
             top(scores) == CHOOSE r \in scores :
                                \A o \in scores : r[1] * o[2] >= o[1] * r[2]
             result(r) == IF 1000 * r[1] > 995 * r[2] THEN 100 ELSE intr(r[1], r[2])
         IN result(top({ratio(shorter, window(long_start(m))) :
                           m \in get_matching_blocks(shorter, longer)}))

\* DataReconciler.description_similarity as the exact fraction <<num, den>>
description_similarity(desc1, desc2) ==
    LET set1 == Range(split([i \in 1..Len(desc1) |-> lower(desc1[i])]))
        set2 == Range(split([i \in 1..Len(desc2) |-> lower(desc2[i])]))
        common_words == set1 \cap set2
    IN <<Cardinality(common_words) * 100,
         Max2(Max2(Cardinality(set1), Cardinality(set2)), 1)>>

(***************************************************************************)
(* Cells and sheets.  A sheet is a sequence of rows over the columns       *)
(* Date, Amount, Description (in this order); a cell is a native           *)
(* timestamp, a native number, a missing value (NaN) or a string.  Within  *)
(* one column the cells are either all strings or all native values.       *)
(***************************************************************************)
TsCell(t) == [kind |-> "ts", v |-> t, s |-> <<>>]

NumCell(c) == [kind |-> "num", v |-> c, s |-> <<>>]

NanCell == [kind |-> "nan", v |-> 0, s |-> <<>>]

StrCell(text) == [kind |-> "str", v |-> 0, s |-> text]

Columns == <<"Date", "Amount", "Description">>

Row(d, a, desc) == [Date |-> d, Amount |-> a, Description |-> StrCell(desc)]

\* df[col]
Column(df, col) == [i \in 1..Len(df) |-> df[i][col]]

\* pd.isna(value)
isna(cell) == cell.kind = "nan"

\* Series.dropna()
RECURSIVE dropna(_)
dropna(col) ==
    IF col = <<>> THEN <<>>
    ELSE IF isna(Head(col)) THEN dropna(Tail(col))
    ELSE <<Head(col)>> \o dropna(Tail(col))

\* Series.head(n)
head(col, n) == SubSeq(col, 1, IF Len(col) < n THEN Len(col) ELSE n)

\* df[col].dtype
dtype(col) ==
    IF \E i \in 1..Len(col) : col[i].kind = "str" THEN "object"
    ELSE IF \E i \in 1..Len(col) : col[i].kind = "ts" THEN "datetime64[ns]"
    ELSE "float64"

Digits == <<"0","1","2","3","4","5","6","7","8","9">>

IsDigit(c) == \E i \in 1..10 : Digits[i] = c

DigitValue(c) == (CHOOSE i \in 1..10 : Digits[i] = c) - 1

\* the value of a run of digits
RECURSIVE Number(_)
Number(s) == IF s = <<>> THEN 0 ELSE 10 * Number(SubSeq(s, 1, Len(s) - 1)) + DigitValue(s[Len(s)])

AllDigits(s) == \A i \in 1..Len(s) : IsDigit(s[i])

Contains(s, c) == \E i \in 1..Len(s) : s[i] = c

Count(s, c) == Cardinality({i \in 1..Len(s) : s[i] = c})

\* re.sub(r'[...]', '', s): drop the characters of a class
RECURSIVE Strip(_, _)
Strip(s, class) ==
    IF s = <<>> THEN <<>>
    ELSE IF Head(s) \in class THEN Strip(Tail(s), class)
    ELSE <<Head(s)>> \o Strip(Tail(s), class)

\* float(s) for a string of sign, digits and decimal point, in cents; the
\* exponent, inf/nan and underscore forms and a third decimal are outside
\* the input domain.  ok = FALSE is ValueError.
float(s) ==
    LET signed == s # <<>> /\ Head(s) \in {"-", "+"}
        body == IF signed THEN Tail(s) ELSE s
        dot == IF Contains(body, ".")
               THEN CHOOSE i \in 1..Len(body) : body[i] = "." /\ \A j \in 1..(i - 1) : body[j] # "."
               ELSE Len(body) + 1
        int == SubSeq(body, 1, dot - 1)
        frac == SubSeq(body, dot + 1, Len(body))
        cents == Number(SubSeq(frac \o <<"0", "0">>, 1, 2))
        ok == AllDigits(int) /\ AllDigits(frac) /\ Len(int) + Len(frac) > 0
        value == 100 * Number(int) + cents
    IN IF ok
       THEN [ok |-> TRUE, v |-> IF signed /\ Head(s) = "-" THEN -value ELSE value]
       ELSE [ok |-> FALSE, v |-> 0]

\* days before each month of 2024
DaysBefore == <<0, 31, 60, 91, 121, 152, 182, 213, 244, 274, 305, 335>>

DaysIn == <<31, 29, 31, 30, 31, 30, 31, 31, 30, 31, 30, 31>>

\* pd.to_datetime(cell): a Timestamp is returned as it is; a string in
\* YYYY-MM-DD notation gives midnight of that day of 2024, counted from
\* 2024-01-10; any other string of the input domain raises (ok = FALSE).
to_datetime(cell) ==
    IF cell.kind = "ts" THEN [ok |-> TRUE, v |-> cell.v]
    ELSE LET t == cell.s
             shape == /\ Len(t) = 10
                      /\ t[5] = "-" /\ t[8] = "-"
                      /\ AllDigits(SubSeq(t, 1, 4))
                      /\ AllDigits(SubSeq(t, 6, 7))
                      /\ AllDigits(SubSeq(t, 9, 10))
             year == Number(SubSeq(t, 1, 4))
             month == Number(SubSeq(t, 6, 7))
             day == Number(SubSeq(t, 9, 10))
         IN IF cell.kind = "str" /\ shape /\ year = 2024 /\ month \in 1..12
               /\ day >= 1 /\ day <= DaysIn[month]
            THEN [ok |-> TRUE, v |-> (DaysBefore[month] + day - 10) * UnitsPerDay]
            ELSE [ok |-> FALSE, v |-> 0]

(***************************************************************************)
(* FinancialDataAnalyzer: column detection and parse_transactions.         *)
(***************************************************************************)
At(s, i) == IF i \in 1..Len(s) THEN s[i] ELSE ""

IsSep(c) == c \in {"/", "-"}

IsSpace(c) == c = " "

IsWord(c) ==
    \/ IsDigit(c) \/ c = "_" \/ lower(c) # c
    \/ c \in {"a","b","c","d","e","f","g","h","i","j","k","l","m",
              "n","o","p","q","r","s","t","u","v","w","x","y","z"}

\* re.search over the three date_patterns of detect_date_columns
date_patterns(s) ==
    \/ \E p \in 1..Len(s), b \in 1..2 :
          /\ IsDigit(At(s, p)) /\ IsSep(At(s, p + 1))
          /\ \A i \in 1..b : IsDigit(At(s, p + 1 + i))
          /\ IsSep(At(s, p + 2 + b))
          /\ IsDigit(At(s, p + 3 + b)) /\ IsDigit(At(s, p + 4 + b))
    \/ \E p \in 1..Len(s), b \in 1..2 :
          /\ \A i \in 0..3 : IsDigit(At(s, p + i))
          /\ IsSep(At(s, p + 4))
          /\ \A i \in 1..b : IsDigit(At(s, p + 4 + i))
          /\ IsSep(At(s, p + 5 + b))
          /\ IsDigit(At(s, p + 6 + b))
    \/ \E p \in 1..Len(s), q \in 1..Len(s), r \in 1..Len(s), t \in 1..Len(s) :
          /\ p < q /\ q < r /\ r < t
          /\ IsDigit(At(s, p))
          /\ \A i \in (p + 1)..q : IsSpace(At(s, i))
          /\ \A i \in (q + 1)..r : IsWord(At(s, i))
          /\ \A i \in (r + 1)..t : IsSpace(At(s, i))
          /\ \A i \in 1..4 : IsDigit(At(s, t + i))

IsDateColumn(col) ==
    IF dtype(col) = "object"
    THEN LET sample == head(dropna(col), 10)
             date_count == Cardinality({i \in 1..Len(sample) :
                               sample[i].kind = "str" /\ date_patterns(sample[i].s)})
         IN 10 * date_count >= 7 * Len(sample)
    ELSE dtype(col) = "datetime64[ns]"

detect_date_columns(df) == SelectSeq(Columns, LAMBDA c : IsDateColumn(Column(df, c)))

CurrencyAndSpace == {",", "$", "€", "£", "¥", "₹", " "}

IsAmountColumn(col) ==
    IF dtype(col) = "float64"
    THEN LET non_zero == {i \in 1..Len(col) : ~isna(col[i]) /\ col[i].v # 0}
             InRange(v) == /\ Abs(v) >= 1
                           /\ \/ Abs(v) \div 100 < 100000000
                              \/ Abs(v) \div 100 = 100000000 /\ Abs(v) % 100 = 0
         IN non_zero # {} /\ \A i \in non_zero : InRange(col[i].v)
    ELSE IF dtype(col) = "object"
    THEN LET sample == head(dropna(col), 20)
             amount_count == Cardinality({i \in 1..Len(sample) :
                                 sample[i].kind = "str"
                                 /\ float(Strip(sample[i].s, CurrencyAndSpace)).ok})
         IN 10 * amount_count >= 7 * Len(sample)
    ELSE FALSE

detect_amount_columns(df) == SelectSeq(Columns, LAMBDA c : IsAmountColumn(Column(df, c)))

\* the text clean_amount hands to float(): currency signs, separators, blanks
\* and parentheses removed, '-' put in front of a parenthesised amount
Analyzer_cleaned(s) ==
    LET cleaned == Strip(s, CurrencyAndSpace \cup {"(", ")"})
    IN IF Contains(s, "(") /\ Contains(s, ")") THEN <<"-">> \o cleaned ELSE cleaned

\* FinancialDataAnalyzer.clean_amount: never fails, 0.0 stands for a missing
\* or unparseable cell
Analyzer_clean_amount(amount_str) ==
    IF isna(amount_str) THEN 0
    ELSE IF amount_str.kind = "num" THEN amount_str.v
    ELSE LET value(parsed) == IF parsed.ok THEN parsed.v ELSE 0
         IN value(float(Analyzer_cleaned(amount_str.s)))

\* the description column: the text column with the longest average length
\* (max() keeps the first of several equal columns); "" when there is none
DescriptionColumn(df, date_cols) ==
    LET IsText(c) == dtype(Column(df, c)) = "object" /\ ~(c \in Range(date_cols))
        text_cols == {i \in 1..Len(Columns) : IsText(Columns[i])}
        total(i) == SumSeq([k \in 1..Len(df) |-> Len(df[k][Columns[i]].s)])
    IN IF text_cols = {} THEN ""
       ELSE Columns[CHOOSE i \in text_cols :
                        \A j \in text_cols : total(i) > total(j) \/ (total(i) = total(j) /\ i <= j)]

Transaction(date, description, amount, transaction_type) ==
    [date |-> date, description |-> description, amount |-> amount,
     transaction_type |-> transaction_type]

Str_Transaction == <<"T","r","a","n","s","a","c","t","i","o","n"," ">>

Str_Ledger_Entry == <<"L","e","d","g","e","r"," ","E","n","t","r","y"," ">>

\* f"Transaction {idx}" / f"Ledger Entry {idx}" for the zero-based row index
DefaultDescription(transaction_type, idx) ==
    (IF transaction_type = "Bank Statement" THEN Str_Transaction ELSE Str_Ledger_Entry)
    \o <<Digits[idx + 1]>>

\* the rows of one sheet turned into transactions (one pass of "for idx, row"):
\* a row whose date raises is skipped, every other row is emitted
RECURSIVE ParseRows(_, _, _, _, _, _)
ParseRows(df, k, date_col, amount_col, desc_col, transaction_type) ==
    IF k > Len(df) THEN <<>>
    ELSE LET row == df[k]
             date_val == to_datetime(row[date_col])
             amount == Analyzer_clean_amount(row[amount_col])
             description == IF desc_col # "" THEN row[desc_col].s
                            ELSE DefaultDescription(transaction_type, k - 1)
             rest == ParseRows(df, k + 1, date_col, amount_col, desc_col, transaction_type)
         IN IF ~date_val.ok THEN rest
            ELSE <<Transaction(date_val.v, description, amount, transaction_type)>> \o rest

\* the transactions of one sheet
ParseSheet(df, transaction_type) ==
    LET date_cols == detect_date_columns(df)
        amount_cols == detect_amount_columns(df)
    IN IF df = <<>> \/ date_cols = <<>> \/ amount_cols = <<>> THEN <<>>
       ELSE ParseRows(df, 1, date_cols[1], amount_cols[1],
                      DescriptionColumn(df, date_cols), transaction_type)

(***************************************************************************)
(* Reconciliation.                                                         *)
(***************************************************************************)
\* program constants of the score
DateWeight == 10
AmountWeight == 100
Threshold == 50

\* timedelta.days of t1 - t2: whole days, rounded towards minus infinity
days(t1, t2) == (t1 - t2) \div UnitsPerDay

\* fuzz.partial_ratio on two descriptions
desc_score(d1, d2) == partial_ratio(d1, d2)

\* [t for t in self.transactions if t.transaction_type == transaction_type], as positions
OfType(txs, transaction_type) ==
    SelectSeq([i \in 1..Len(txs) |-> i], LAMBDA i : txs[i].transaction_type = transaction_type)

\* the candidate pool at the start of a call
LedgerPool_stale(txs) ==
    IF reconciliation_results.present THEN reconciliation_results.unmatched_ledger
    ELSE OfType(txs, "Customer Ledger")

LedgerPool(txs) == OfType(txs, "Customer Ledger")

\* the scan that replaces the chosen candidate by a later one of equal score
RECURSIVE ScanLedger_geq(_, _, _, _, _, _, _)
ScanLedger_geq(txs, b, pool, k, best, tolerance_days, amount_tolerance) ==
    IF k > Len(pool) THEN best
    ELSE LET l == pool[k]
             date_diff == Abs(days(txs[b].date, txs[l].date))
             amount_diff == Abs(txs[b].amount - txs[l].amount)
             better(score) == IF score >= best.best_score /\ score > Threshold
                              THEN [best_match |-> l, best_score |-> score]
                              ELSE best
             next == IF date_diff <= tolerance_days /\ amount_diff <= amount_tolerance
                     THEN better(desc_score(txs[b].description, txs[l].description)
                                 - date_diff * DateWeight
                                 - (amount_diff * AmountWeight) \div 100)
                     ELSE best
         IN ScanLedger_geq(txs, b, pool, k + 1, next, tolerance_days, amount_tolerance)

\* the scan that keeps the first candidate above the threshold
RECURSIVE ScanLedger_first(_, _, _, _, _, _, _)
ScanLedger_first(txs, b, pool, k, best, tolerance_days, amount_tolerance) ==
    IF k > Len(pool) THEN best
    ELSE LET l == pool[k]
             date_diff == Abs(days(txs[b].date, txs[l].date))
             amount_diff == Abs(txs[b].amount - txs[l].amount)
             better(score) == IF best.best_match = 0 /\ score > Threshold
                              THEN [best_match |-> l, best_score |-> score]
                              ELSE best
             next == IF date_diff <= tolerance_days /\ amount_diff <= amount_tolerance
                     THEN better(desc_score(txs[b].description, txs[l].description)
                                 - date_diff * DateWeight
                                 - (amount_diff * AmountWeight) \div 100)
                     ELSE best
         IN ScanLedger_first(txs, b, pool, k + 1, next, tolerance_days, amount_tolerance)

\* "for ledger_trans in ledger_transactions" for one bank transaction, from
\* position k of the pool on; amounts are cents, so amount_diff * 100 is the
\* difference in cents scaled by AmountWeight / 100
RECURSIVE ScanLedger(_, _, _, _, _, _, _)
ScanLedger(txs, b, pool, k, best, tolerance_days, amount_tolerance) ==
    IF k > Len(pool) THEN best
    ELSE LET l == pool[k]
             date_diff == Abs(days(txs[b].date, txs[l].date))
             amount_diff == Abs(txs[b].amount - txs[l].amount)
             better(score) == IF score > best.best_score /\ score > Threshold
                              THEN [best_match |-> l, best_score |-> score]
                              ELSE best
             next == IF date_diff <= tolerance_days /\ amount_diff <= amount_tolerance
                     THEN better(desc_score(txs[b].description, txs[l].description)
                                 - date_diff * DateWeight
                                 - (amount_diff * AmountWeight) \div 100)
                     ELSE best
         IN ScanLedger(txs, b, pool, k + 1, next, tolerance_days, amount_tolerance)

\* "if best_match in ledger_transactions: ledger_transactions.remove(best_match)":
\* membership and removal compare field values
RemoveMatched_keep(txs, pool, best_match) == pool

RemoveMatched_first(txs, pool, best_match) == Tail(pool)

\* the removal that drops every pool member whose field values equal the match
RemoveMatched_all(txs, pool, best_match) ==
    SelectSeq(pool, LAMBDA l : txs[l] # txs[best_match])

\* the removal that drops the last pool member
RemoveMatched_pop(txs, pool, best_match) == SubSeq(pool, 1, Len(pool) - 1)

RemoveMatched(txs, pool, best_match) ==
    IF \E k \in 1..Len(pool) : txs[pool[k]] = txs[best_match]
    THEN RemoveAt(pool, FirstEqual(txs, pool, best_match))
    ELSE pool

\* "for bank_trans in bank_transactions", from position k of the bank list on
RECURSIVE MatchBank(_, _, _, _, _, _)
MatchBank(txs, bank, k, acc, tolerance_days, amount_tolerance) ==
    IF k > Len(bank) THEN acc
    ELSE LET b == bank[k]
             next(best) ==
                 IF best.best_match # 0
                 THEN [acc EXCEPT
                         !.matches = Append(@, [bank |-> b, ledger |-> best.best_match,
                                                score |-> best.best_score]),
                         !.unmatched_ledger = RemoveMatched(txs, @, best.best_match)]
                 ELSE [acc EXCEPT !.unmatched_bank = Append(@, b)]
         IN MatchBank(txs, bank, k + 1,
                      next(ScanLedger(txs, b, acc.unmatched_ledger, 1,
                                      [best_match |-> 0, best_score |-> 0],
                                      tolerance_days, amount_tolerance)),
                      tolerance_days, amount_tolerance)

\* the dictionary find_matching_transactions stores and returns; transactions
\* are named by their positions in self.transactions
MatchingResults_carry(txs, tolerance_days, amount_tolerance) ==
    MatchBank(txs, OfType(txs, "Bank Statement"), 1,
              [present |-> TRUE,
               matches |-> reconciliation_results.matches,
               unmatched_bank |-> <<>>,
               unmatched_ledger |-> LedgerPool(txs)],
              tolerance_days, amount_tolerance)

MatchingResults_early(txs, tolerance_days, amount_tolerance) ==
    IF OfType(txs, "Bank Statement") = <<>> \/ LedgerPool(txs) = <<>>
    THEN [present |-> TRUE, matches |-> <<>>, unmatched_bank |-> <<>>,
          unmatched_ledger |-> <<>>]
    ELSE MatchBank(txs, OfType(txs, "Bank Statement"), 1,
                   [present |-> TRUE, matches |-> <<>>, unmatched_bank |-> <<>>,
                    unmatched_ledger |-> LedgerPool(txs)],
                   tolerance_days, amount_tolerance)

MatchingResults(txs, tolerance_days, amount_tolerance) ==
    MatchBank(txs, OfType(txs, "Bank Statement"), 1,
              [present |-> TRUE, matches |-> <<>>, unmatched_bank |-> <<>>,
               unmatched_ledger |-> LedgerPool(txs)],
              tolerance_days, amount_tolerance)

\* reconciliation_results = {} after construction
NoResults == [present |-> FALSE, matches |-> <<>>, unmatched_bank |-> <<>>,
              unmatched_ledger |-> <<>>]

(***************************************************************************)
(* AdvancedTransactionParser.                                              *)
(***************************************************************************)
currency_symbols == << <<"$">>, <<"€">>, <<"£">>, <<"¥">>, <<"₹">>,
                       <<"H","U","F">>, <<"E","U","R">>, <<"U","S","D">>, <<"G","B","P">> >>

StartsWith(s, sub) == Len(s) >= Len(sub) /\ SubSeq(s, 1, Len(sub)) = sub

\* str.replace(sub, '')
RECURSIVE Remove(_, _)
Remove(s, sub) ==
    IF s = <<>> THEN <<>>
    ELSE IF StartsWith(s, sub) THEN Remove(SubSeq(s, Len(sub) + 1, Len(s)), sub)
    ELSE <<Head(s)>> \o Remove(Tail(s), sub)

\* "for symbol in self.currency_symbols: amount_str = amount_str.replace(symbol, '')"
RECURSIVE RemoveSymbols(_, _)
RemoveSymbols(s, k) ==
    IF k > Len(currency_symbols) THEN s
    ELSE RemoveSymbols(Remove(s, currency_symbols[k]), k + 1)

\* str.strip()
RECURSIVE strip(_)
strip(s) ==
    IF s = <<>> THEN s
    ELSE IF Head(s) = " " THEN strip(Tail(s))
    ELSE IF s[Len(s)] = " " THEN strip(SubSeq(s, 1, Len(s) - 1))
    ELSE s

\* re.sub(r'[^\d.,\-]', '', s): keep the characters of a class
Keep(s, class) == SelectSeq(s, LAMBDA c : c \in class)

\* str.replace(',', '.')
CommaToDot(s) == [i \in 1..Len(s) |-> IF s[i] = "," THEN "." ELSE s[i]]

\* the comma rule of clean_amount
ResolveComma(s) ==
    IF Contains(s, ",") /\ Contains(s, ".") THEN Strip(s, {","})
    ELSE IF Contains(s, ",") /\ Count(s, ",") = 1
    THEN LET comma == CHOOSE i \in 1..Len(s) : s[i] = ","
         IN IF Len(s) - comma <= 2 THEN CommaToDot(s) ELSE Strip(s, {","})
    ELSE s

\* AdvancedTransactionParser.clean_amount: 0.0 for a missing or unparseable cell
Parser_clean_amount(amount_str) ==
    IF isna(amount_str) THEN 0
    ELSE IF amount_str.kind = "num" THEN amount_str.v
    ELSE LET bare == RemoveSymbols(strip(amount_str.s), 1)
             is_negative == Contains(bare, "(") /\ Contains(bare, ")")
             unwrapped == IF is_negative THEN Strip(bare, {"(", ")"}) ELSE bare
             numeric == Keep(unwrapped, Range(Digits) \cup {".", ",", "-"})
             value == float(ResolveComma(numeric))
         IN IF value.ok THEN (IF is_negative THEN -value.v ELSE value.v) ELSE 0

\* AdvancedTransactionParser.clean_date: None (ok = FALSE) for a missing cell
\* or a string neither pd.to_datetime nor one of the strptime formats reads;
\* the strptime formats read no string of the input domain that
\* pd.to_datetime rejects
clean_date(date_str) ==
    IF isna(date_str) THEN [ok |-> FALSE, v |-> 0] ELSE to_datetime(date_str)

\* _is_amount_column for a column whose name holds an amount keyword: more
\* than half of the sampled cells read as numbers once ',', '(' and ')' are
\* removed (a native number always does)
is_amount_column(sample) ==
    LET numeric_count == Cardinality({i \in 1..Len(sample) :
                             \/ sample[i].kind = "num"
                             \/ /\ sample[i].kind = "str"
                                /\ float(Strip(sample[i].s, {",", "(", ")"})).ok})
    IN Len(sample) > 0 /\ 2 * numeric_count > Len(sample)

\* detect_column_types on the sheet's columns: Date and Description are
\* recognised by their names, Amount by its name and is_amount_column
detect_column_types(df) ==
    [date |-> <<"Date">>,
     amount |-> IF is_amount_column(head(dropna(Column(df, "Amount")), 20))
                THEN <<"Amount">> ELSE <<>>,
     description |-> <<"Description">>]

ParsedTransaction(date, description, amount, debit_credit, row_number) ==
    [date |-> date, description |-> description, amount |-> amount,
     debit_credit |-> debit_credit, row_number |-> row_number]

\* the amount stored in the record
StoredAmount(amount) == Abs(amount)

\* "for idx, row in df.iterrows()" of parse_bank_statement and
\* parse_customer_ledger, from row k on
RECURSIVE ParseStatementRows(_, _, _, _, _)
ParseStatementRows(df, k, date_col, amount_col, desc_col) ==
    IF k > Len(df) THEN <<>>
    ELSE LET row == df[k]
             date_val == clean_date(row[date_col])
             amount == Parser_clean_amount(row[amount_col])
             description == IF isna(row[desc_col]) THEN <<>> ELSE row[desc_col].s
             debit_credit == IF amount < 0 THEN "DEBIT" ELSE "CREDIT"
             rest == ParseStatementRows(df, k + 1, date_col, amount_col, desc_col)
         IN IF ~date_val.ok \/ amount = 0 THEN rest
            ELSE <<ParsedTransaction(date_val.v, description, StoredAmount(amount),
                                     debit_credit, k)>> \o rest

\* parse_bank_statement / parse_customer_ledger: the records differ only in
\* fields the reconciliation never reads (reference, counterparty)
ParseStatement(df) ==
    LET column_types == detect_column_types(df)
    IN IF column_types.date = <<>> \/ column_types.amount = <<>> THEN <<>>
       ELSE ParseStatementRows(df, 1, column_types.date[1], column_types.amount[1],
                               column_types.description[1])

(***************************************************************************)
(* DataReconciler.  A score is the exact fraction <<num, den>>, den > 0.   *)
(***************************************************************************)
Greater(x, y) == x[1] * y[2] > y[1] * x[2]

\* "for ledger_trans in ledger_transactions" for one bank transaction
RECURSIVE ScanCandidates(_, _, _, _, _, _, _)
ScanCandidates(bank, ledger, b, k, best, date_tolerance, amount_tolerance) ==
    IF k > Len(ledger) THEN best
    ELSE LET date_diff == Abs(days(bank[b].date, ledger[k].date))
             amount_diff == Abs(bank[b].amount - ledger[k].amount)
             sim == description_similarity(bank[b].description, ledger[k].description)
             score == <<sim[1] - sim[2] * (date_diff * DateWeight
                                          + (amount_diff * AmountWeight) \div 100),
                        sim[2]>>
             next == IF /\ date_diff <= date_tolerance
                        /\ amount_diff <= amount_tolerance
                        /\ Greater(score, best.best_score)
                     THEN [best_match |-> k, best_score |-> score]
                     ELSE best
         IN ScanCandidates(bank, ledger, b, k + 1, next, date_tolerance, amount_tolerance)

\* DataReconciler.reconcile_transactions: the list of (bank, ledger, score),
\* transactions named by their positions in the two argument lists
RECURSIVE ReconcileFrom(_, _, _, _, _)
ReconcileFrom(bank, ledger, b, date_tolerance, amount_tolerance) ==
    IF b > Len(bank) THEN <<>>
    ELSE LET best == ScanCandidates(bank, ledger, b, 1,
                                    [best_match |-> 0, best_score |-> <<0, 1>>],
                                    date_tolerance, amount_tolerance)
             rest == ReconcileFrom(bank, ledger, b + 1, date_tolerance, amount_tolerance)
         IN IF best.best_match # 0
            THEN <<[bank |-> b, ledger |-> best.best_match, score |-> best.best_score]>> \o rest
            ELSE rest

(***************************************************************************)
(* The workbooks the programs are run on.                                  *)
(***************************************************************************)
Str_1_00 == <<"1",".","0","0">>
Str_P1_25 == <<"(","1",".","2","5",")">>
Str_1_25M == <<"1",".","2","5","-">>
Str_TBD == <<"T","B","D">>
Str_Jan10 == <<"2","0","2","4","-","0","1","-","1","0">>
Str_Jan11 == <<"2","0","2","4","-","0","1","-","1","1">>
Str_BadDate == <<"2","0","2","4","-","1","3","-","4","5">>

SheetsOver(rows, n) == UNION {[1..k -> rows] : k \in 0..n}

\* native dates and amounts; the bank rows vary in their timestamps only
BankRows == {Row(TsCell(t), NumCell(100), Str_Rent_A) : t \in 0..MaxTime}

LedgerRows == {Row(TsCell(t), NumCell(a), d) :
                  t \in 0..MaxTime, a \in {100, 125}, d \in {Str_Rent_A, Str_Rent_B}}

\* amounts written as text
TextAmountRows == {Row(TsCell(0), StrCell(a), Str_Rent_A) :
                      a \in {Str_1_00, Str_P1_25, Str_1_25M, Str_TBD}}

\* dates written as text, amounts native or missing
TextDateRows == {Row(StrCell(d), a, Str_Rent_A) :
                    d \in {Str_Jan10, Str_Jan11, Str_BadDate}, a \in {NumCell(100), NanCell}}

DirtySheets == (SheetsOver(TextAmountRows, MaxDirtyRows) \cup SheetsOver(TextDateRows, MaxDateRows))
               \ {<<>>}

PlainSheet == <<Row(TsCell(0), NumCell(100), Str_Rent_A)>>

\* the end-to-end scenario: 2024-01-10 and 2024-01-12, 150.00 on both sides
ScenarioBank == <<Row(TsCell(0), NumCell(15000), Str_ACH)>>

ScenarioLedger == <<Row(TsCell(2 * UnitsPerDay), NumCell(15000), Str_Util)>>

Workbooks ==
    (SheetsOver(BankRows, MaxBank) \X SheetsOver(LedgerRows, MaxLedger))
    \cup (DirtySheets \X {PlainSheet})
    \cup ({PlainSheet} \X DirtySheets)
    \cup {<<ScenarioBank, ScenarioLedger>>}

\* the tolerances a call may be given, <<days, cents>>; <<3, 1>> are the defaults
Tolerances == ((0..MaxTolDays) \X {1, 25}) \cup {<<3, 1>>}

NoCall == [tolerance_days |-> -1, amount_tolerance |-> -1, repeated |-> FALSE]

\* the record of a call with the given arguments
Call(days_arg, amount_arg) ==
    [tolerance_days |-> days_arg, amount_tolerance |-> amount_arg,
     repeated |-> last_call.tolerance_days = days_arg
                  /\ last_call.amount_tolerance = amount_arg]

(***************************************************************************)
(* FormatParser (src/src/core/format_parser.py).  A pattern is a sequence  *)
(* of elements, each a character class with a quantifier: exactly one,    *)
(* optional, any number ("star") or at least one ("plus"), all greedy.     *)
(***************************************************************************)
Elem(class, q) == [class |-> class, q |-> q]

DigitClass == Range(Digits)

\* FormatParser.amount_patterns, in the order of the dictionary
amount_patterns ==
    << <<Elem({"$"}, "one"), Elem(DigitClass \cup {","}, "plus"),
         Elem({"."}, "opt"), Elem(DigitClass, "star")>>,
       <<Elem({"€"}, "one"), Elem(DigitClass \cup {".", ","}, "plus")>>,
       <<Elem({"₹"}, "one"), Elem(DigitClass \cup {","}, "plus"),
         Elem({"."}, "opt"), Elem(DigitClass, "star")>>,
       <<Elem({"("}, "one"), Elem(DigitClass \cup {","}, "plus"),
         Elem({"."}, "opt"), Elem(DigitClass, "star"), Elem({")"}, "one")>>,
       <<Elem(DigitClass \cup {","}, "plus"), Elem({"."}, "opt"),
         Elem(DigitClass, "star"), Elem({"-"}, "one")>>,
       <<Elem(DigitClass \cup {"."}, "plus"), Elem({"K", "M", "B"}, "one")>> >>

\* the length of the run of characters of a class that starts at position i
RECURSIVE RunLength(_, _, _)
RunLength(s, i, class) ==
    IF i <= Len(s) /\ s[i] \in class THEN 1 + RunLength(s, i + 1, class) ELSE 0

\* the regex engine on the elements k.. of pattern p at position i of s: the
\* position after the match it prefers (longest repetitions first, giving
\* characters back while the rest fails), 0 when there is no match
RECURSIVE MatchFrom(_, _, _, _)
MatchFrom(p, k, s, i) ==
    IF k > Len(p) THEN i
    ELSE LET lo == IF p[k].q \in {"one", "plus"} THEN i + 1 ELSE i
             run == RunLength(s, i, p[k].class)
             hi == IF p[k].q \in {"one", "opt"} /\ run > 1 THEN i + 1 ELSE i + run
             last(ends) == IF ends = {} THEN 0
                           ELSE CHOOSE e \in ends : \A o \in ends : o <= e
             rest(j) == MatchFrom(p, k + 1, s, j)
             first(js) == IF js = {} THEN 0 ELSE rest(last(js))
         IN first({j \in lo..hi : rest(j) # 0})

\* re.sub(pattern, '', s) from position i on: matches are searched from left
\* to right and do not overlap
RECURSIVE SubFrom(_, _, _)
SubFrom(p, s, i) ==
    IF i > Len(s) THEN <<>>
    ELSE LET skip(e) == IF e > i THEN SubFrom(p, s, e)
                        ELSE <<s[i]>> \o SubFrom(p, s, i + 1)
         IN skip(MatchFrom(p, 1, s, i))

\* "for pattern in self.amount_patterns.values(): cleaned = re.sub(...)"
RECURSIVE RemovePatterns(_, _)
RemovePatterns(s, k) ==
    IF k > Len(amount_patterns) THEN s
    ELSE RemovePatterns(SubFrom(amount_patterns[k], s, 1), k + 1)

\* the text parse_amount hands to float()
SignedText(val, cleaned) ==
    IF Contains(val, "(") /\ Contains(val, ")") THEN <<"-">> \o cleaned
    ELSE IF val # <<>> /\ val[Len(val)] = "-"
    THEN <<"-">> \o SubSeq(cleaned, 1, Len(cleaned) - 1)
    ELSE cleaned

\* FormatParser.parse_amount: [ok |-> FALSE] stands for None, v is in cents
ParsedAmount(val) ==
    float(SignedText(val, RemovePatterns(strip(Strip(val, {","})), 1)))

NoAmount == [ok |-> FALSE, v |-> 0]

\* amounts of at most two decimals
AmountBodies ==
    {<<"1", "2", "3", "4", ".", "5", "6">>,
     <<"1", ",", "2", "3", "4", ".", "5", "6">>,
     <<"2", ",", "5", "0", "0", ".", "0", "0">>,
     <<"0", ".", "2", "5">>,
     <<"1", ".", "5">>,
     <<"1", "0", "0">>,
     <<"1", "2">>}

\* the notations an amount is written in
Notations(b) ==
    {b, <<"$">> \o b, <<"€">> \o b, <<"₹">> \o b, <<"£">> \o b,
     <<"(">> \o b \o <<")">>, b \o <<"-">>, <<"-">> \o b, b \o <<"K">>}

Str_Euro_1234_56 == <<"€", "1", ".", "2", "3", "4", ",", "5", "6">>

Str_Dollar_1234_56 == <<"$", "1", ",", "2", "3", "4", ".", "5", "6">>

Str_Paren_2500_00 == <<"(", "2", ",", "5", "0", "0", ".", "0", "0", ")">>

Str_1234_56_Minus == <<"1", "2", "3", "4", ".", "5", "6", "-">>

\* the strings parse_amount is called with
AmountStrings == UNION {Notations(b) : b \in AmountBodies} \cup {Str_Euro_1234_56}

(***************************************************************************)
(* FinancialDataStore and its three backends                               *)
(* (src/src/core/data_storage.py).  A DataFrame is the sequence of its     *)
(* rows over the columns Category (text) and Amount (integer), with the    *)
(* default RangeIndex, so labels are positions.  The metadata maps a       *)
(* column to its detected_type.  A filter value carries its Python type.   *)
(***************************************************************************)
StoreColumns == <<"Category", "Amount">>

Min2(x, y) == IF x <= y THEN x ELSE y

EmptyMap == [c \in {} |-> 0]

Categories == <<"a", "b">>

ColumnType(col) == IF col = "Category" THEN "str" ELSE "int"

StoreRow(c, a) == [Category |-> c, Amount |-> a]

IntV(n) == [t |-> "int", v |-> n]

StrV(c) == [t |-> "str", v |-> c]

None == [t |-> "none", v |-> 0]

\* a list of values, for the operator 'in'
List(xs) == [t |-> "list", v |-> xs]

\* the QueryFilter dataclass
QueryFilter(col, op, val, val2) ==
    [column |-> col, operator |-> op, value |-> val, value2 |-> val2]

\* metadata.get(col, {}).get('detected_type')
detected_type(metadata, col) ==
    IF col \in DOMAIN metadata THEN metadata[col] ELSE "none"

\* a table as the bag of its rows: the order of rows is not part of a result
RowsBag(rows) ==
    [r \in Range(rows) |-> Cardinality({i \in 1..Len(rows) : rows[i] = r})]

\* what a call returns: a table, or an exception that reaches the caller
Returned(rows) == [kind |-> "table", rows |-> rows]

Raised == [kind |-> "raised", rows |-> <<>>]

\* one comparison of a cell of a column with a filter value; a value of
\* the other type is never equal to the cell
Compare(cell, col, op, val) ==
    IF val.t # ColumnType(col) THEN FALSE
    ELSE CASE op = "==" -> cell = val.v
           [] op = ">" -> cell > val.v
           [] op = "<" -> cell < val.v
           [] op = ">=" -> cell >= val.v
           [] op = "<=" -> cell <= val.v

\* the mask of one filter at one cell, for a filter the if/elif chain has a
\* branch for and whose comparison does not raise
Holds(cell, col, f) ==
    CASE f.operator = "in" -> \E x \in f.value.v : Compare(cell, col, "==", x)
      [] f.operator = "between" -> Compare(cell, col, ">=", f.value)
                                   /\ Compare(cell, col, "<=", f.value2)
      [] OTHER -> Compare(cell, col, f.operator, f.value)

\* a filter the if/elif chain has a branch for
Handled(f) ==
    \/ f.operator \in {"==", ">", "<", ">=", "<=", "in"}
    \/ f.operator = "between" /\ f.value2.t # "none"

\* an 'in' filter whose value is no list: iterating it, or isin, raises TypeError
Malformed(f) == f.operator = "in" /\ f.value.t # "list"

\* the values a filter orders the cells against
Ordered(f) ==
    CASE f.operator \in {">", "<", ">=", "<="} -> {f.value}
      [] f.operator = "between" /\ f.value2.t # "none" -> {f.value, f.value2}
      [] OTHER -> {}

\* series > value raises TypeError when Python has to order a str and an int
CompareRaises(rows, col, f) ==
    rows # <<>> /\ \E x \in Ordered(f) : x.t # ColumnType(col)

\* result[mask]
Mask(rows, col, f) == SelectSeq(rows, LAMBDA r : Holds(r[col], col, f))

(***************************************************************************)
(* PandasMultiIndexStorage.                                                *)
(***************************************************************************)
\* the columns of the metadata (in the order of the table) of a type
ColumnsOfType(metadata, types) ==
    SelectSeq(StoreColumns, LAMBDA c : detected_type(metadata, c) \in types)

\* index_columns of store_data: up to two date columns, then text columns
IndexColumns(metadata) ==
    LET date_cols == ColumnsOfType(metadata, {"date"})
        cat_cols == ColumnsOfType(metadata, {"string"})
        dates == SubSeq(date_cols, 1, Min2(2, Len(date_cols)))
    IN dates \o SubSeq(cat_cols, 1, Min2(2 - Len(dates), Len(cat_cols)))

\* sort_index() on the single text index
SortByCategory(rows) ==
    SelectSeq(rows, LAMBDA r : r.Category = Categories[1])
    \o SelectSeq(rows, LAMBDA r : r.Category # Categories[1])

\* store_data: with index columns a sorted copy is kept, without them the
\* caller's DataFrame itself (aliased: data is then read from the caller)
Pandas_store_data(st, df, metadata) ==
    [st EXCEPT !.metadata = metadata,
               !.has_data = TRUE,
               !.index_names = IndexColumns(metadata),
               !.aliased = IndexColumns(metadata) = <<>>,
               !.data = IF IndexColumns(metadata) # <<>> THEN SortByCategory(df) ELSE <<>>]

\* self.data as the backend sees it now
Data(st, caller) == IF st.aliased THEN caller ELSE st.data

\* one pass of "for filter_obj in filters" of query_data: a filter on an
\* unknown column is skipped; on an index column '==' calls xs(level=) on an
\* index that is no MultiIndex and every other operator reads
\* result[column], both raise; a filter that raises is skipped
Pandas_filter(st, rows, f) ==
    IF f.column \notin Range(StoreColumns) THEN rows
    ELSE IF f.column \in Range(st.index_names) THEN rows
    ELSE IF Malformed(f) \/ CompareRaises(rows, f.column, f) THEN rows
    ELSE IF Handled(f) THEN Mask(rows, f.column, f)
    ELSE rows

RECURSIVE Pandas_filters(_, _, _, _)
Pandas_filters(st, rows, filters, k) ==
    IF k > Len(filters) THEN rows
    ELSE Pandas_filters(st, Pandas_filter(st, rows, filters[k]), filters, k + 1)

Pandas_query_data(st, caller, filters) ==
    IF ~st.has_data THEN Returned(<<>>)
    ELSE Returned(Pandas_filters(st, Data(st, caller), filters, 1))

(***************************************************************************)
(* Aggregation: one row per group with count, sum, min and max of every    *)
(* measure (mean = sum / count; the std column of the pandas backends is   *)
(* left out).                                                              *)
(***************************************************************************)
GroupKey(r, cols) == [i \in 1..Len(cols) |-> r[cols[i]]]

Members(rows, cols, key) == SelectSeq(rows, LAMBDA r : GroupKey(r, cols) = key)

RECURSIVE SumOf(_, _)
SumOf(rows, col) == IF rows = <<>> THEN 0 ELSE Head(rows)[col] + SumOf(Tail(rows), col)

Stats(rows, col) ==
    [count |-> Len(rows),
     sum |-> SumOf(rows, col),
     min |-> CHOOSE x \in {rows[i][col] : i \in 1..Len(rows)} :
                 \A i \in 1..Len(rows) : x <= rows[i][col],
     max |-> CHOOSE x \in {rows[i][col] : i \in 1..Len(rows)} :
                 \A i \in 1..Len(rows) : x >= rows[i][col]]

GroupRow(members, key, measures) ==
    [key |-> key, stats |-> [i \in 1..Len(measures) |-> Stats(members, measures[i])]]

\* groupby(cols)[measures].agg(...) / SELECT ... GROUP BY: the set of group rows
Aggregate(rows, cols, measures) ==
    {GroupRow(Members(rows, cols, key), key, measures) :
        key \in {GroupKey(rows[i], cols) : i \in 1..Len(rows)}}

Existing(cols) == SelectSeq(cols, LAMBDA c : c \in Range(StoreColumns))

\* aggregate_data of the pandas backend: measures are looked for among the
\* columns only, group columns among the columns and the index
Pandas_measures(st, measures) ==
    SelectSeq(measures, LAMBDA c : c \in Range(StoreColumns) \ Range(st.index_names))

Pandas_aggregate_data(st, caller, group_by, measures) ==
    IF ~st.has_data THEN Returned({})
    ELSE IF Existing(group_by) = <<>> \/ Pandas_measures(st, measures) = <<>>
    THEN Returned({})
    ELSE Returned(Aggregate(Data(st, caller), Existing(group_by), Pandas_measures(st, measures)))

(***************************************************************************)
(* SQLiteStorage.                                                          *)
(***************************************************************************)
\* df.to_sql(..., if_exists='replace'): the table is replaced by the rows
SQLite_store_data(st, df, metadata) ==
    [st EXCEPT !.metadata = metadata, !.has_data = TRUE, !.data = df]

\* a comparison in SQL never raises: an integer is less than any text
SqlCompare(cell, col, op, val) ==
    IF val.t = ColumnType(col) THEN Compare(cell, col, op, val)
    ELSE IF ColumnType(col) = "str" THEN op \in {">", ">="}
    ELSE op \in {"<", "<="}

SqlHolds(cell, col, f) ==
    CASE f.operator = "in" -> \E x \in f.value.v : Compare(cell, col, "==", x)
      [] f.operator = "between" -> SqlCompare(cell, col, ">=", f.value)
                                   /\ SqlCompare(cell, col, "<=", f.value2)
      [] OTHER -> SqlCompare(cell, col, f.operator, f.value)

RECURSIVE SQLite_where(_, _, _)
SQLite_where(rows, filters, k) ==
    IF k > Len(filters) THEN rows
    ELSE IF ~Handled(filters[k]) THEN SQLite_where(rows, filters, k + 1)
    ELSE SQLite_where(SelectSeq(rows, LAMBDA r : SqlHolds(r[filters[k].column],
                                                         filters[k].column, filters[k])),
                      filters, k + 1)

\* the query fails: no table yet, or a where clause names no column of it
SQLite_fails(st, cols) == ~st.has_data \/ \E c \in cols : c \notin Range(StoreColumns)

FilterColumns(filters) == {filters[k].column : k \in {i \in 1..Len(filters) : Handled(filters[i])}}

\* the where clauses are built before the try: a malformed filter raises;
\* a statement that fails inside the try gives an empty table
SQLite_query_data(st, filters) ==
    IF \E k \in 1..Len(filters) : Malformed(filters[k]) THEN Raised
    ELSE IF SQLite_fails(st, FilterColumns(filters)) THEN Returned(<<>>)
    ELSE Returned(SQLite_where(st.data, filters, 1))

SQLite_aggregate_data(st, group_by, measures) ==
    IF group_by = <<>> \/ measures = <<>> THEN Returned({})
    ELSE IF SQLite_fails(st, Range(group_by) \cup Range(measures)) THEN Returned({})
    ELSE Returned(Aggregate(st.data, group_by, measures))

(***************************************************************************)
(* DictionaryHashStorage.  Positions are zero-based as in the code.        *)
(***************************************************************************)
\* the index of one column: value -> the positions that hold it
HashIndex(df, col) ==
    [val \in {df[i][col] : i \in 1..Len(df)} |->
        SelectSeq([i \in 1..Len(df) |-> i - 1], LAMBDA p : df[p + 1][col] = val)]

Indexed(metadata) == {c \in Range(StoreColumns) :
                         detected_type(metadata, c) \in {"string", "categorical"}}

\* store_data: the indexes of the columns indexed now are rebuilt, every
\* other entry of self.hash_indexes stays as it is
Hash_store_data(st, df, metadata) ==
    [st EXCEPT !.metadata = metadata, !.has_data = TRUE, !.data = df,
               !.hash_indexes = [c \in Indexed(metadata) \cup DOMAIN @ |->
                                    IF c \in Indexed(metadata) THEN HashIndex(df, c)
                                    ELSE @[c]]]

\* the positions a filter leaves: through the hash index for '==' on an
\* indexed column, through _apply_filter otherwise (every row for a filter
\* _apply_filter has no branch for)
Hash_filter(st, valid, f) ==
    IF f.operator = "==" /\ f.column \in DOMAIN st.hash_indexes
    THEN IF f.value.t = ColumnType(f.column) /\ f.value.v \in DOMAIN st.hash_indexes[f.column]
         THEN valid \cap Range(st.hash_indexes[f.column][f.value.v])
         ELSE {}
    ELSE IF ~Handled(f) THEN valid
    ELSE valid \cap {p \in 0..(Len(st.data) - 1) :
                        Holds(st.data[p + 1][f.column], f.column, f)}

\* _apply_filter raises: nothing around it catches the TypeError
Hash_raises(st, f) ==
    /\ ~(f.operator = "==" /\ f.column \in DOMAIN st.hash_indexes)
    /\ Malformed(f) \/ CompareRaises(st.data, f.column, f)

\* "for filter_obj in filters": ok is FALSE when a filter raised
RECURSIVE Hash_filters(_, _, _, _)
Hash_filters(st, valid, filters, k) ==
    IF k > Len(filters) THEN [ok |-> TRUE, valid |-> valid]
    ELSE IF filters[k].column \notin Range(StoreColumns)
    THEN Hash_filters(st, valid, filters, k + 1)
    ELSE IF Hash_raises(st, filters[k]) THEN [ok |-> FALSE, valid |-> {}]
    ELSE Hash_filters(st, Hash_filter(st, valid, filters[k]), filters, k + 1)

\* the rows at the positions
Take(rows, positions) ==
    LET at(idx) == [k \in 1..Len(idx) |-> rows[idx[k]]]
    IN at(SelectSeq([i \in 1..Len(rows) |-> i], LAMBDA i : i - 1 \in positions))

\* self.data.iloc[list(valid_indices)]: IndexError for a position out of bounds
Hash_iloc(st, found) ==
    IF ~found.ok THEN Raised
    ELSE IF \E p \in found.valid : p >= Len(st.data) THEN Raised
    ELSE Returned(Take(st.data, found.valid))

Hash_query_data(st, filters) ==
    IF st.data = <<>> THEN Returned(<<>>)
    ELSE Hash_iloc(st, Hash_filters(st, 0..(Len(st.data) - 1), filters, 1))

Hash_aggregate_data(st, group_by, measures) ==
    IF st.data = <<>> \/ group_by = <<>> \/ measures = <<>> THEN Returned({})
    ELSE IF Existing(group_by) = <<>> \/ Existing(measures) = <<>> THEN Returned({})
    ELSE Returned(Aggregate(st.data, Existing(group_by), Existing(measures)))

(***************************************************************************)
(* FinancialDataStore: the constructor picks the backend by name.          *)
(***************************************************************************)
Backend_default(strategy) ==
    CASE strategy = "sqlite" -> "SQLiteStorage"
      [] strategy = "hash" -> "DictionaryHashStorage"
      [] OTHER -> "PandasMultiIndexStorage"

Backend(strategy) ==
    CASE strategy = "pandas" -> "PandasMultiIndexStorage"
      [] strategy = "sqlite" -> "SQLiteStorage"
      [] strategy = "hash" -> "DictionaryHashStorage"
      [] OTHER -> "ValueError"

\* the backend as its __init__ leaves it
NewStore(strategy, backend) ==
    [strategy |-> strategy, backend |-> backend, data |-> <<>>, has_data |-> FALSE,
     aliased |-> FALSE, index_names |-> <<>>, hash_indexes |-> EmptyMap,
     metadata |-> EmptyMap]

NoStore == NewStore("", "none")

\* self.storage.store_data(df, column_metadata)
store_data(st, df, metadata) ==
    CASE st.backend = "PandasMultiIndexStorage" -> Pandas_store_data(st, df, metadata)
      [] st.backend = "SQLiteStorage" -> SQLite_store_data(st, df, metadata)
      [] st.backend = "DictionaryHashStorage" -> Hash_store_data(st, df, metadata)

\* self.storage.query_data(filters); caller is the caller's DataFrame as it is now
query_data(st, caller, filters) ==
    CASE st.backend = "PandasMultiIndexStorage" -> Pandas_query_data(st, caller, filters)
      [] st.backend = "SQLiteStorage" -> SQLite_query_data(st, filters)
      [] st.backend = "DictionaryHashStorage" -> Hash_query_data(st, filters)

\* self.storage.aggregate_data(group_by, measures)
storage_aggregate_data(st, caller, group_by, measures) ==
    CASE st.backend = "PandasMultiIndexStorage" -> Pandas_aggregate_data(st, caller, group_by, measures)
      [] st.backend = "SQLiteStorage" -> SQLite_aggregate_data(st, group_by, measures)
      [] st.backend = "DictionaryHashStorage" -> Hash_aggregate_data(st, group_by, measures)

\* the last call of the caller that returns a table, and what came back
Output(call, filters, group_by, measures, returned) ==
    [call |-> call, filters |-> filters, group_by |-> group_by, measures |-> measures,
     kind |-> returned.kind, rows |-> returned.rows]

NoOutput == Output("none", <<>>, <<>>, <<>>, Returned(<<>>))

(***************************************************************************)
(* The tables, metadata, filters and column lists the store is driven      *)
(* with.                                                                   *)
(***************************************************************************)
StoreRows == {StoreRow("a", 1), StoreRow("b", 2)}

Tables == UNION {[1..n -> StoreRows] : n \in 0..MaxRows}

Metadata == {[Category |-> "string", Amount |-> "number"], [Amount |-> "number"]}

StrategyNames == {"pandas", "sqlite", "hash", "redis"}

FilterSet ==
    <<QueryFilter("Category", "==", StrV("a"), None),
      QueryFilter("Category", ">", IntV(1), None),
      QueryFilter("Amount", ">", IntV(1), None),
      QueryFilter("Amount", "between", IntV(1), IntV(1)),
      QueryFilter("Amount", "in", List({IntV(2)}), None),
      QueryFilter("Missing", "==", IntV(1), None),
      QueryFilter("Amount", "like", IntV(1), None),
      QueryFilter("Amount", "between", IntV(1), None),
      QueryFilter("Amount", "in", IntV(2), None)>>

\* the filter lists of at most MaxFilters filters, the filters of a list in
\* the order they have in FilterSet
FilterLists ==
    UNION {{[k \in 1..n |-> FilterSet[idx[k]]] :
               idx \in {f \in [1..n -> 1..Len(FilterSet)] :
                           \A i, j \in 1..n : i < j => f[i] <= f[j]}} :
           n \in 0..MaxFilters}

GroupBys == {<<>>, <<"Category">>, <<"Missing">>, <<"Category", "Missing">>}

Measures == {<<"Amount">>, <<"Missing">>, <<"Amount", "Missing">>}

(***************************************************************************)
(* DataTypeDetector (src/src/core/type_detector.py).  A column is a name   *)
(* and its cells.  A confidence is counted in sixtieths, so that 0.3, 0.5, *)
(* 0.7, 0.8, 0.9 and every parse rate over at most six values are whole    *)
(* numbers; the one sum Python rounds below its exact value, 0.7 + 0.3, is *)
(* the exact 1.0 here.  A numeric cell of a column holds thousandths.      *)
(***************************************************************************)
Scale == 60

\* data.head(20)
SampleSize == 20

\* name_score = 0.3
NameBonus == 18

\* "confidence > 0.7"
Decisive == 42

\* the confidence of a numeric column: 0.9 in the monetary range, 0.8
\* outside it, 0.7 when no value differs from zero
ConfidenceMonetary == 54

ConfidenceNumeric == 48

ConfidenceZero == 42

\* the confidence of text: 0.5, and 0.3 when there is no value
ConfidenceString == 30

ConfidenceNoText == 18

string_indicators ==
    <<<<"n", "a", "m", "e">>,
      <<"d", "e", "s", "c", "r", "i", "p", "t", "i", "o", "n">>,
      <<"c", "a", "t", "e", "g", "o", "r", "y">>,
      <<"r", "e", "f", "e", "r", "e", "n", "c", "e">>,
      <<"n", "o", "t", "e">>,
      <<"m", "e", "m", "o">>,
      <<"a", "c", "c", "o", "u", "n", "t">>,
      <<"c", "o", "m", "p", "a", "n", "y">>,
      <<"a", "d", "d", "r", "e", "s", "s">>,
      <<"t", "y", "p", "e">>,
      <<"s", "t", "a", "t", "u", "s">>,
      <<"c", "o", "m", "m", "e", "n", "t">>>>

number_indicators ==
    <<<<"a", "m", "o", "u", "n", "t">>,
      <<"b", "a", "l", "a", "n", "c", "e">>,
      <<"t", "o", "t", "a", "l">>,
      <<"s", "u", "m">>,
      <<"v", "a", "l", "u", "e">>,
      <<"p", "r", "i", "c", "e">>,
      <<"c", "o", "s", "t">>,
      <<"r", "e", "v", "e", "n", "u", "e">>,
      <<"e", "x", "p", "e", "n", "s", "e">>,
      <<"a", "s", "s", "e", "t">>,
      <<"l", "i", "a", "b", "i", "l", "i", "t", "y">>,
      <<"q", "u", "a", "n", "t", "i", "t", "y">>,
      <<"q", "t", "y">>,
      <<"p", "e", "r", "c", "e", "n", "t">>,
      <<"p", "e", "r", "c", "e", "n", "t", "a", "g", "e">>,
      <<"r", "a", "t", "i", "o">>,
      <<"r", "a", "t", "e">>>>

date_indicators ==
    <<<<"d", "a", "t", "e">>,
      <<"t", "i", "m", "e">>,
      <<"c", "r", "e", "a", "t", "e", "d">>,
      <<"u", "p", "d", "a", "t", "e", "d">>,
      <<"d", "u", "e">>,
      <<"s", "t", "a", "r", "t">>,
      <<"e", "n", "d">>,
      <<"m", "a", "t", "u", "r", "i", "t", "y">>,
      <<"p", "e", "r", "i", "o", "d">>,
      <<"y", "e", "a", "r">>,
      <<"m", "o", "n", "t", "h">>,
      <<"d", "a", "y">>,
      <<"f", "i", "s", "c", "a", "l">>>>

\* column_name.lower()
LowerText(s) == [i \in 1..Len(s) |-> lower(s[i])]

\* indicator in col_lower
Within(sub, s) == \E i \in 0..(Len(s) - Len(sub)) : SubSeq(s, i + 1, i + Len(sub)) = sub

\* any(indicator in col_lower for indicator in indicators)
Indicated(column_name, indicators) ==
    \E k \in 1..Len(indicators) : Within(indicators[k], LowerText(column_name))

name_score_penalty(column_name, indicators) ==
    IF Indicated(column_name, indicators) THEN 0 - NameBonus ELSE 0

name_score(column_name, indicators) ==
    IF Indicated(column_name, indicators) THEN NameBonus ELSE 0

min_uncapped(confidence) == confidence

\* min(confidence, 1.0)
min_1(confidence) == Min2(confidence, Scale)

TypeDetectionResult(type, confidence) == [detected_type |-> type, confidence |-> confidence]

(***************************************************************************)
(* str(value) of a cell: the text itself, the repr of a float with at most *)
(* three decimals, and the text of a Timestamp at midnight of a day of     *)
(* January 2024.                                                           *)
(***************************************************************************)
RECURSIVE Decimal(_)
Decimal(n) == IF n < 10 THEN <<Digits[n + 1]>> ELSE Decimal(n \div 10) \o <<Digits[(n % 10) + 1]>>

\* the decimals of a float: thousandths without trailing zeros, one digit at least
Decimals(m) ==
    IF m % 100 = 0 THEN <<Digits[(m \div 100) + 1]>>
    ELSE IF m % 10 = 0 THEN <<Digits[(m \div 100) + 1], Digits[((m \div 10) % 10) + 1]>>
    ELSE <<Digits[(m \div 100) + 1], Digits[((m \div 10) % 10) + 1], Digits[(m % 10) + 1]>>

str(cell) ==
    CASE cell.kind = "str" -> cell.s
      [] cell.kind = "num" ->
             (IF cell.v < 0 THEN <<"-">> ELSE <<>>)
             \o Decimal(Abs(cell.v) \div 1000) \o <<".">> \o Decimals(Abs(cell.v) % 1000)
      [] cell.kind = "ts" ->
             <<"2", "0", "2", "4", "-", "0", "1", "-">>
             \o Decimal(10 + (cell.v \div UnitsPerDay))
             \o <<" ", "0", "0", ":", "0", "0", ":", "0", "0">>

(***************************************************************************)
(* Regular expressions: re.search, and a pattern anchored with ^ and $.    *)
(***************************************************************************)
WordClass ==
    DigitClass \cup {"_"} \cup {"a", "b", "c", "d", "e", "f", "g", "h", "i", "j", "k", "l", "m", "n", "o", "p", "q", "r", "s", "t", "u", "v", "w", "x", "y", "z"}
    \cup {"A", "B", "C", "D", "E", "F", "G", "H", "I", "J", "K", "L", "M", "N", "O", "P", "Q", "R", "S", "T", "U", "V", "W", "X", "Y", "Z"}

\* re.search(pattern, s)
Search(p, s) == \E i \in 1..Len(s) : MatchFrom(p, 1, s, i) # 0

\* the pattern between ^ and $ matches all of s from position i on
RECURSIVE MatchesToEnd(_, _, _, _)
MatchesToEnd(p, k, s, i) ==
    IF k > Len(p) THEN i = Len(s) + 1
    ELSE LET lo == IF p[k].q \in {"one", "plus"} THEN i + 1 ELSE i
             hi(run) == IF p[k].q \in {"one", "opt"} /\ run > 1 THEN i + 1 ELSE i + run
         IN \E j \in lo..hi(RunLength(s, i, p[k].class)) : MatchesToEnd(p, k + 1, s, j)

\* the date patterns that are searched for
detector_date_patterns ==
    <<<<Elem(DigitClass, "one"), Elem(DigitClass, "opt"),
      Elem({"/", "-"}, "one"),
      Elem(DigitClass, "one"), Elem(DigitClass, "opt"),
      Elem({"/", "-"}, "one"),
      Elem(DigitClass, "one"), Elem(DigitClass, "one"), Elem(DigitClass, "opt"), Elem(DigitClass, "opt")>>,
     <<Elem(DigitClass, "one"), Elem(DigitClass, "one"), Elem(DigitClass, "one"), Elem(DigitClass, "one"),
      Elem({"/", "-"}, "one"),
      Elem(DigitClass, "one"), Elem(DigitClass, "opt"),
      Elem({"/", "-"}, "one"),
      Elem(DigitClass, "one"), Elem(DigitClass, "opt")>>,
     <<Elem(DigitClass, "one"), Elem(DigitClass, "opt"),
      Elem({"-"}, "one"),
      Elem(WordClass, "one"), Elem(WordClass, "one"), Elem(WordClass, "one"),
      Elem({"-"}, "one"),
      Elem(DigitClass, "one"), Elem(DigitClass, "one"), Elem(DigitClass, "opt"), Elem(DigitClass, "opt")>>,
     <<Elem(WordClass, "one"), Elem(WordClass, "one"), Elem(WordClass, "one"), Elem(WordClass, "opt"), Elem(WordClass, "opt"), Elem(WordClass, "opt"), Elem(WordClass, "opt"), Elem(WordClass, "opt"), Elem(WordClass, "opt"),
      Elem({" "}, "plus"),
      Elem(DigitClass, "one"), Elem(DigitClass, "opt"),
      Elem({","}, "opt"), Elem({" "}, "plus"),
      Elem(DigitClass, "one"), Elem(DigitClass, "one"), Elem(DigitClass, "one"), Elem(DigitClass, "one")>>,
     <<Elem({"Q"}, "one"), Elem({"1", "2", "3", "4"}, "one"), Elem({" ", "-"}, "opt"),
      Elem(DigitClass, "one"), Elem(DigitClass, "one"), Elem(DigitClass, "opt"), Elem(DigitClass, "opt")>>>>

\* ^\d{5}$, the Excel serial date
excel_serial == <<Elem(DigitClass, "one"), Elem(DigitClass, "one"), Elem(DigitClass, "one"), Elem(DigitClass, "one"), Elem(DigitClass, "one")>>

\* the currency patterns, anchored and case-insensitive
currency_patterns ==
    <<<<Elem({"$"}, "one"), Elem((DigitClass \cup {","}), "plus"), Elem({"."}, "opt"), Elem(DigitClass, "star")>>,
     <<Elem({"€"}, "one"), Elem((DigitClass \cup {".", ","}), "plus")>>,
     <<Elem({"£"}, "one"), Elem((DigitClass \cup {","}), "plus"), Elem({"."}, "opt"), Elem(DigitClass, "star")>>,
     <<Elem({"₹"}, "one"), Elem((DigitClass \cup {","}), "plus"), Elem({"."}, "opt"), Elem(DigitClass, "star")>>,
     <<Elem((DigitClass \cup {","}), "plus"), Elem({"."}, "one"), Elem(DigitClass, "one"), Elem(DigitClass, "one")>>,
     <<Elem({"("}, "one"), Elem((DigitClass \cup {","}), "plus"), Elem({"."}, "opt"), Elem(DigitClass, "star"), Elem({")"}, "one")>>,
     <<Elem((DigitClass \cup {","}), "plus"), Elem({"."}, "opt"), Elem(DigitClass, "star"), Elem({"-"}, "one")>>,
     <<Elem((DigitClass \cup {"."}), "plus"), Elem({"K", "M", "B", "k", "m", "b"}, "one")>>>>

(***************************************************************************)
(* _detect_date_type.                                                      *)
(***************************************************************************)
\* pd.to_datetime(str_val) succeeds.  Whether the date parser takes a bare
\* number such as "1.5" for a date depends on the pandas and dateutil
\* versions: bare is the outcome of the installed ones.
DateParses(text, bare) ==
    \/ to_datetime(StrCell(text)).ok
    \/ bare /\ float(text).ok

DateLike(text, bare) ==
    \/ DateParses(text, bare)
    \/ \E k \in 1..Len(detector_date_patterns) : Search(detector_date_patterns[k], text)
    \/ MatchesToEnd(excel_serial, 1, text, 1)

\* successful_parses * 1.0 / total_attempts, in sixtieths
parse_rate(successful_parses, total_attempts) == (successful_parses * Scale) \div total_attempts

\* the values that are looked at: data.head(20), without the missing ones
Sample(data) == dropna(head(data, SampleSize))

\* str(value).strip() of every value looked at
Texts(sample) == [i \in 1..Len(sample) |-> strip(str(sample[i]))]

detect_date_type(data, column_name, bare) ==
    LET rate(texts) ==
            parse_rate(Cardinality({i \in 1..Len(texts) : DateLike(texts[i], bare)}), Len(texts))
    IN IF dtype(data) = "datetime64[ns]" THEN TypeDetectionResult("date", Scale)
       ELSE IF Sample(data) = <<>> THEN TypeDetectionResult("date", 0)
       ELSE TypeDetectionResult("date",
                min_1(rate(Texts(Sample(data))) + name_score(column_name, date_indicators)))

(***************************************************************************)
(* _detect_number_type.                                                    *)
(***************************************************************************)
\* data[data != 0].dropna()
non_zero(data) == SelectSeq(dropna(data), LAMBDA cell : cell.v # 0)

\* non_zero.abs().min() >= 0.01 and non_zero.abs().max() <= 1e10
Monetary(cells) ==
    \A i \in 1..Len(cells) : Abs(cells[i].v) >= 10 /\ Abs(cells[i].v) \div 1000000000 <= 10000

\* the confidence of a numeric column before the name score: 0.9, 0.8, 0.7
NumericConfidence(data) ==
    IF non_zero(data) = <<>> THEN ConfidenceZero
    ELSE IF Monetary(non_zero(data)) THEN ConfidenceMonetary
    ELSE ConfidenceNumeric

\* re.sub(r'[,$€£¥₹\s()%]', '', str_val), then without every '-' when it ends in one
NumberCleaned(text) ==
    LET signless(cleaned) ==
            IF cleaned # <<>> /\ cleaned[Len(cleaned)] = "-" THEN Strip(cleaned, {"-"})
            ELSE cleaned
    IN signless(Strip(text, {",", "$", "€", "£", "¥", "₹", " ", "(", ")", "%"}))

NumberLike(text) ==
    \/ float(text).ok
    \/ \E k \in 1..Len(currency_patterns) : MatchesToEnd(currency_patterns[k], 1, text, 1)
    \/ float(NumberCleaned(text)).ok

detect_number_type(data, column_name) ==
    LET rate(texts) ==
            parse_rate(Cardinality({i \in 1..Len(texts) : NumberLike(texts[i])}), Len(texts))
    IN IF dtype(data) = "float64"
       THEN TypeDetectionResult("number",
                min_1(NumericConfidence(data) + name_score(column_name, number_indicators)))
       ELSE IF Sample(data) = <<>> THEN TypeDetectionResult("number", 0)
       ELSE TypeDetectionResult("number",
                min_1(rate(Texts(Sample(data))) + name_score(column_name, number_indicators)))

(***************************************************************************)
(* _detect_string_type.                                                    *)
(***************************************************************************)
RECURSIVE SumLen(_)
SumLen(texts) == IF texts = <<>> THEN 0 ELSE Len(Head(texts)) + SumLen(Tail(texts))

\* long_text, categorical, description or string
string_type(str_values) ==
    IF SumLen(str_values) > 50 * Len(str_values) THEN "long_text"
    ELSE IF 10 * Cardinality(Range(str_values)) < Len(str_values) THEN "categorical"
    ELSE IF \A i \in 1..Min2(5, Len(str_values)) : Len(split(str_values[i])) > 3
    THEN "description"
    ELSE "string"

detect_string_type(data, column_name) ==
    IF Sample(data) = <<>> THEN TypeDetectionResult("string", ConfidenceNoText)
    ELSE TypeDetectionResult(string_type([i \in 1..Len(Sample(data)) |-> str(Sample(data)[i])]),
                             min_1(ConfidenceString + name_score(column_name, string_indicators)))

(***************************************************************************)
(* detect_column_type.                                                     *)
(***************************************************************************)
\* the greatest confidence, the last of the results that have it
Best_last(results) ==
    results[CHOOSE i \in 1..Len(results) :
                /\ \A j \in 1..Len(results) : results[j].confidence <= results[i].confidence
                /\ \A j \in (i + 1)..Len(results) : results[j].confidence < results[i].confidence]

\* max(results, key=lambda x: x.confidence): the first of the greatest
Best(results) ==
    results[CHOOSE i \in 1..Len(results) :
                /\ \A j \in 1..Len(results) : results[j].confidence <= results[i].confidence
                /\ \A j \in 1..(i - 1) : results[j].confidence < results[i].confidence]

detect_column_type_of(column_data, column_name, bare) ==
    LET clean_data == dropna(column_data)
        pick(date_result, number_result) ==
            IF date_result.confidence > Decisive THEN date_result
            ELSE IF number_result.confidence > Decisive THEN number_result
            ELSE Best(<<date_result, number_result,
                        detect_string_type(clean_data, column_name)>>)
    IN IF clean_data = <<>> THEN TypeDetectionResult("string", 0)
       ELSE pick(detect_date_type(clean_data, column_name, bare),
                 detect_number_type(clean_data, column_name))

\* a column: its name and its cells
Series(column_name, cells) == [name |-> column_name, cells |-> cells]

NoSeries == Series(<<>>, <<>>)

NoDetection == TypeDetectionResult("none", 0)

(***************************************************************************)
(* FormatParser.parse_date (src/src/core/format_parser.py).  A date is the *)
(* record of its year, month and day; ok = FALSE stands for None.          *)
(***************************************************************************)
Date(y, m, d) == [ok |-> TRUE, y |-> y, m |-> m, d |-> d]

NoDate == [ok |-> FALSE, y |-> 0, m |-> 0, d |-> 0]

\* self.date_patterns in insertion order: <<key, value>>, the value being
\* the regular expression
Str_MM_DD_YYYY == <<"M", "M", "/", "D", "D", "/", "Y", "Y", "Y", "Y">>

Str_DD_MM_YYYY == <<"D", "D", "/", "M", "M", "/", "Y", "Y", "Y", "Y">>

Str_YYYY_MM_DD == <<"Y", "Y", "Y", "Y", "-", "M", "M", "-", "D", "D">>

Str_Quarter == <<"Q", "u", "a", "r", "t", "e", "r">>

Str_Month_YYYY == <<"M", "o", "n", "t", "h", "_", "Y", "Y", "Y", "Y">>

Digit12 == <<Elem(DigitClass, "one"), Elem(DigitClass, "opt")>>

Digit4 == <<Elem(DigitClass, "one"), Elem(DigitClass, "one"), Elem(DigitClass, "one"),
            Elem(DigitClass, "one")>>

Digit24 == <<Elem(DigitClass, "one"), Elem(DigitClass, "one"), Elem(DigitClass, "opt"),
             Elem(DigitClass, "opt")>>

FormatParser_date_patterns ==
    << <<Str_MM_DD_YYYY, Digit12 \o <<Elem({"/"}, "one")>> \o Digit12 \o <<Elem({"/"}, "one")>> \o Digit4>>,
       <<Str_DD_MM_YYYY, Digit12 \o <<Elem({"/"}, "one")>> \o Digit12 \o <<Elem({"/"}, "one")>> \o Digit4>>,
       <<Str_YYYY_MM_DD, Digit4 \o <<Elem({"-"}, "one")>> \o Digit12 \o <<Elem({"-"}, "one")>> \o Digit12>>,
       <<Str_Quarter, <<Elem({"Q"}, "one"), Elem({"1", "2", "3", "4"}, "one"), Elem({"-"}, "one")>> \o Digit24>>,
       <<Str_Month_YYYY, <<Elem(WordClass, "one"), Elem(WordClass, "one"), Elem(WordClass, "plus"),
                           Elem({" "}, "one")>> \o Digit4>> >>

\* a regular expression without metacharacters, as the pattern of its characters
Literal(text) == [i \in 1..Len(text) |-> Elem({text[i]}, "one")]

\* re.match(pattern, value): a match at the start of value
Match(p, value) == value # <<>> /\ MatchFrom(p, 1, value, 1) # 0

\* str.split(sep) for a one-character separator
RECURSIVE SplitOn(_, _)
SplitOn(s, sep) ==
    IF ~Contains(s, sep) THEN <<s>>
    ELSE LET i == CHOOSE k \in 1..Len(s) : s[k] = sep /\ \A j \in 1..(k - 1) : s[j] # sep
         IN <<SubSeq(s, 1, i - 1)>> \o SplitOn(SubSeq(s, i + 1, Len(s)), sep)

IsLeap(y) == (y % 4 = 0 /\ y % 100 # 0) \/ y % 400 = 0

DaysInMonth(y, m) ==
    IF m = 2 THEN (IF IsLeap(y) THEN 29 ELSE 28)
    ELSE IF m \in {4, 6, 9, 11} THEN 30 ELSE 31

\* datetime(year, month, day): ValueError for a date that does not exist
datetime(y, m, d) ==
    IF y \in 1..9999 /\ m \in 1..12 /\ d \in 1..DaysInMonth(y, m) THEN Date(y, m, d)
    ELSE NoDate

\* the text of a %m or %d field: one or two digits, not zero
Field12(text) == Len(text) \in {1, 2} /\ AllDigits(text) /\ Number(text) > 0

\* the text of a %Y field: four digits
FieldY(text) == Len(text) = 4 /\ AllDigits(text)

MonthNames ==
    <<<<"j", "a", "n">>,
      <<"f", "e", "b">>,
      <<"m", "a", "r">>,
      <<"a", "p", "r">>,
      <<"m", "a", "y">>,
      <<"j", "u", "n">>,
      <<"j", "u", "l">>,
      <<"a", "u", "g">>,
      <<"s", "e", "p">>,
      <<"o", "c", "t">>,
      <<"n", "o", "v">>,
      <<"d", "e", "c">>>>

\* datetime.strptime(value, fmt) for the formats of parse_date; the whole
\* value has to match; NoDate is ValueError
strptime(value, fmt) ==
    IF fmt = "%b %Y"
    THEN LET parts == SplitOn(value, " ")
             named(b) == \E m \in 1..12 : MonthNames[m] = LowerText(b)
             month(b) == CHOOSE m \in 1..12 : MonthNames[m] = LowerText(b)
         IN IF Len(parts) >= 2 /\ named(parts[1]) /\ FieldY(parts[Len(parts)])
               /\ \A k \in 2..(Len(parts) - 1) : parts[k] = <<>>
            THEN datetime(Number(parts[Len(parts)]), month(parts[1]), 1)
            ELSE NoDate
    ELSE LET parts == SplitOn(value, IF fmt = "%Y-%m-%d" THEN "-" ELSE "/")
             yi == IF fmt = "%Y-%m-%d" THEN 1 ELSE 3
             mi == IF fmt = "%m/%d/%Y" THEN 1 ELSE 2
             di == IF fmt = "%Y-%m-%d" THEN 3 ELSE IF fmt = "%m/%d/%Y" THEN 2 ELSE 1
         IN IF Len(parts) = 3 /\ FieldY(parts[yi]) /\ Field12(parts[mi]) /\ Field12(parts[di])
            THEN datetime(Number(parts[yi]), Number(parts[mi]), Number(parts[di]))
            ELSE NoDate

\* FormatParser._parse_quarter: the first day of the quarter's last month
parse_quarter(value) ==
    IF Match(<<Elem({"Q"}, "one"), Elem({"1", "2", "3", "4"}, "one"), Elem({"-"}, "one")>> \o Digit24,
             value)
    THEN LET year == SubSeq(value, 4, Min2(Len(value), 3 + RunLength(value, 4, DigitClass)))
         IN datetime(Number(SubSeq(year, 1, Min2(4, Len(year)))), DigitValue(value[2]) * 3, 1)
    ELSE NoDate

\* the loop of parse_date from entry k on, with the names the loop gives the
\* two components of an entry: pattern is the key, date_format the value
RECURSIVE ParseDateFrom(_, _)
ParseDateFrom(value, k) ==
    IF k > Len(FormatParser_date_patterns) THEN NoDate
    ELSE LET pattern == FormatParser_date_patterns[k][1]
             date_format == FormatParser_date_patterns[k][2]
             rest == ParseDateFrom(value, k + 1)
             tried(parsed) == IF parsed.ok THEN parsed ELSE rest
         IN IF ~Match(Literal(pattern), value) THEN rest
            ELSE IF Within(Str_MM_DD_YYYY, pattern) THEN tried(strptime(value, "%m/%d/%Y"))
            ELSE IF Within(Str_DD_MM_YYYY, pattern) THEN tried(strptime(value, "%d/%m/%Y"))
            ELSE IF Within(Str_YYYY_MM_DD, pattern) THEN tried(strptime(value, "%Y-%m-%d"))
            ELSE IF Within(Str_Quarter, pattern) THEN parse_quarter(value)
            ELSE IF Within(Str_Month_YYYY, pattern) THEN tried(strptime(value, "%b %Y"))
            ELSE rest

\* FormatParser.parse_date
ParsedDate(value) == ParseDateFrom(value, 1)

\* the strings parse_date is called with
Str_01_15_2024 == <<"0", "1", "/", "1", "5", "/", "2", "0", "2", "4">>

Str_2024_01_15 == <<"2", "0", "2", "4", "-", "0", "1", "-", "1", "5">>

Str_Jan_2024 == <<"J", "a", "n", " ", "2", "0", "2", "4">>

Str_Q1_2024 == <<"Q", "1", "-", "2", "0", "2", "4">>

Str_Q4_2023 == <<"Q", "4", "-", "2", "0", "2", "3">>

DateStrings ==
    {Str_01_15_2024, Str_2024_01_15, Str_Jan_2024, Str_Q1_2024, Str_Q4_2023,
     <<"1", "5", "/", "0", "1", "/", "2", "0", "2", "4">>,
     <<"0", "2", "/", "3", "0", "/", "2", "0", "2", "4">>,
     <<"2", "0", "2", "4", "-", "1", "3", "-", "0", "1">>,
     <<"Q", "5", "-", "2", "0", "2", "4">>,
     <<"Q", "2", "-", "2", "4">>,
     <<"J", "a", "n", "u", "a", "r", "y", " ", "2", "0", "2", "4">>,
     <<"Q", "u", "a", "r", "t", "e", "r", " ", "1">>,
     <<"R", "e", "n", "t">>,
     <<"1", "/", "5", "/", "2", "0", "2", "4">>,
     Str_MM_DD_YYYY, Str_DD_MM_YYYY, Str_YYYY_MM_DD, Str_Quarter, Str_Month_YYYY}

\* amounts written with commas, for clean_amount
Str_1c5 == <<"1", ",", "5">>

Str_1c50 == <<"1", ",", "5", "0">>

Str_1c500 == <<"1", ",", "5", "0", "0">>

Str_1c234c567 == <<"1", ",", "2", "3", "4", ",", "5", "6", "7">>

Str_1c234d56 == <<"1", ",", "2", "3", "4", ".", "5", "6">>

\* the amounts written as text in the workbooks
TextAmounts == {Str_1_00, Str_P1_25, Str_1_25M, Str_TBD}

CommaStrings ==
    {Str_1c5, Str_1c50, Str_1c500, Str_1c234c567, Str_1c234d56,
     <<"1", "2", ",", "3", "4">>,
     <<"1", ",">>,
     <<"$", "1", ",", "5", "0">>,
     <<"(", "1", ",", "5", "0", "0", ")">>,
     <<"1", ",", "2", ",", "3">>}

FormatIdle ==
    fp_value = <<>> /\ fp_parsed = NoAmount /\ cleaned_amount = 0 /\ fp_date = NoDate

StoreIdle == store = NoStore /\ table = <<>> /\ stored = <<>> /\ output = NoOutput

DetectIdle == series = NoSeries /\ detection = NoDetection

PipelineIdle ==
    /\ bank_data = <<>> /\ ledger_data = <<>>
    /\ transactions = <<>>
    /\ reconciliation_results = NoResults
    /\ bank_transactions = <<>> /\ ledger_transactions = <<>>
    /\ matches = <<>>
    /\ last_call = NoCall
    /\ calls = 0

(***************************************************************************)
(* The programs.  cli.py loads both workbooks, parses them and reconciles  *)
(* (main.py lets the user reconcile again with other tolerances);          *)
(* full_analysis.py loads them, parses each with AdvancedTransactionParser *)
(* and hands the two lists to DataReconciler.                              *)
(***************************************************************************)
Init ==
    /\ \E w \in Workbooks : bank_data = w[1] /\ ledger_data = w[2]
    /\ transactions = <<>>
    /\ reconciliation_results = NoResults
    /\ bank_transactions = <<>>
    /\ ledger_transactions = <<>>
    /\ matches = <<>>
    /\ pc = "loaded"
    /\ last_call = NoCall
    /\ calls = 0
    /\ FormatIdle /\ StoreIdle /\ DetectIdle

parse_transactions ==
    /\ pc = "loaded"
    /\ transactions' = ParseSheet(bank_data, "Bank Statement")
                       \o ParseSheet(ledger_data, "Customer Ledger")
    /\ pc' = "analyzer_parsed"
    /\ UNCHANGED <<bank_data, ledger_data, reconciliation_results, bank_transactions,
                   ledger_transactions, matches, last_call, calls>>
    /\ UNCHANGED <<format_vars, store_vars, detect_vars>>

find_matching_transactions(tolerance_days, amount_tolerance) ==
    /\ pc \in {"analyzer_parsed", "analyzer_reconciled"}
    /\ calls < MaxCalls
    /\ calls' = calls + 1
    /\ reconciliation_results' = MatchingResults(transactions, tolerance_days, amount_tolerance)
    /\ last_call' = Call(tolerance_days, amount_tolerance)
    /\ pc' = "analyzer_reconciled"
    /\ UNCHANGED <<bank_data, ledger_data, transactions, bank_transactions,
                   ledger_transactions, matches>>
    /\ UNCHANGED <<format_vars, store_vars, detect_vars>>

parse_bank_statement ==
    /\ pc = "loaded"
    /\ bank_transactions' = ParseStatement(bank_data)
    /\ pc' = "bank_parsed"
    /\ UNCHANGED <<bank_data, ledger_data, transactions, reconciliation_results,
                   ledger_transactions, matches, last_call, calls>>
    /\ UNCHANGED <<format_vars, store_vars, detect_vars>>

parse_customer_ledger ==
    /\ pc = "bank_parsed"
    /\ ledger_transactions' = ParseStatement(ledger_data)
    /\ pc' = "ledger_parsed"
    /\ UNCHANGED <<bank_data, ledger_data, transactions, reconciliation_results,
                   bank_transactions, matches, last_call, calls>>
    /\ UNCHANGED <<format_vars, store_vars, detect_vars>>

reconcile_transactions(date_tolerance, amount_tolerance) ==
    /\ pc \in {"ledger_parsed", "reconciled"}
    /\ calls < MaxCalls
    /\ calls' = calls + 1
    /\ matches' = ReconcileFrom(bank_transactions, ledger_transactions, 1,
                                date_tolerance, amount_tolerance)
    /\ last_call' = Call(date_tolerance, amount_tolerance)
    /\ pc' = "reconciled"
    /\ UNCHANGED <<bank_data, ledger_data, transactions, reconciliation_results,
                   bank_transactions, ledger_transactions>>
    /\ UNCHANGED <<format_vars, store_vars, detect_vars>>

Next ==
    \/ parse_transactions
    \/ \E t \in Tolerances : find_matching_transactions(t[1], t[2])
    \/ parse_bank_statement
    \/ parse_customer_ledger
    \/ \E t \in Tolerances : reconcile_transactions(t[1], t[2])

Spec == Init /\ [][Next]_vars


(***************************************************************************)
(* FormatParser and AdvancedTransactionParser.clean_amount on one string.   *)
(***************************************************************************)
InitFormat ==
    /\ \/ pc = "amount_given" /\ fp_value \in AmountStrings \cup CommaStrings
       \/ pc = "cell_given" /\ fp_value \in CommaStrings \cup TextAmounts
       \/ pc = "date_given" /\ fp_value \in DateStrings
    /\ fp_parsed = NoAmount
    /\ cleaned_amount = 0
    /\ fp_date = NoDate
    /\ PipelineIdle /\ StoreIdle /\ DetectIdle

parse_amount ==
    /\ pc = "amount_given"
    /\ fp_parsed' = ParsedAmount(fp_value)
    /\ pc' = "amount_parsed"
    /\ UNCHANGED <<pipeline_vars, fp_value, cleaned_amount, fp_date, store_vars, detect_vars>>

clean_amount ==
    /\ pc = "cell_given"
    /\ cleaned_amount' = Parser_clean_amount(StrCell(fp_value))
    /\ pc' = "amount_cleaned"
    /\ UNCHANGED <<pipeline_vars, fp_value, fp_parsed, fp_date, store_vars, detect_vars>>

parse_date ==
    /\ pc = "date_given"
    /\ fp_date' = ParsedDate(fp_value)
    /\ pc' = "date_parsed"
    /\ UNCHANGED <<pipeline_vars, fp_value, fp_parsed, cleaned_amount, store_vars, detect_vars>>

NextFormat == parse_amount \/ clean_amount \/ parse_date

SpecFormat == InitFormat /\ [][NextFormat]_vars

(***************************************************************************)
(* The store and its caller: the caller constructs a FinancialDataStore,   *)
(* hands it tables, changes its own table in place, and queries.  table is *)
(* the caller's DataFrame as it is now, stored the tables as they were     *)
(* when they were handed over.                                             *)
(***************************************************************************)
InitStore ==
    /\ pc = "store_new"
    /\ StoreIdle
    /\ PipelineIdle /\ FormatIdle /\ DetectIdle

\* FinancialDataStore(strategy)
FinancialDataStore_init(strategy) ==
    /\ pc = "store_new"
    /\ store' = NewStore(strategy, Backend(strategy))
    /\ pc' = IF Backend(strategy) = "ValueError" THEN "store_failed" ELSE "store_ready"
    /\ UNCHANGED <<table, stored, output>>
    /\ UNCHANGED <<pipeline_vars, format_vars, detect_vars>>

add_dataset(df, column_metadata) ==
    /\ pc = "store_ready"
    /\ Len(stored) < MaxStores
    /\ store' = store_data(store, df, column_metadata)
    /\ table' = df
    /\ stored' = Append(stored, df)
    /\ output' = NoOutput
    /\ UNCHANGED pc
    /\ UNCHANGED <<pipeline_vars, format_vars, detect_vars>>

\* the caller assigns to a cell of the DataFrame it handed over
mutate_table(i, amount) ==
    /\ pc = "store_ready"
    /\ stored # <<>>
    /\ table = stored[Len(stored)]
    /\ i \in 1..Len(table)
    /\ table[i].Amount # amount
    /\ table' = [table EXCEPT ![i].Amount = amount]
    /\ UNCHANGED <<pc, store, stored, output>>
    /\ UNCHANGED <<pipeline_vars, format_vars, detect_vars>>

query_by_criteria(filters) ==
    /\ pc = "store_ready"
    /\ output' = Output("query", filters, <<>>, <<>>, query_data(store, table, filters))
    /\ UNCHANGED <<pc, store, table, stored>>
    /\ UNCHANGED <<pipeline_vars, format_vars, detect_vars>>

aggregate_data(group_by, measures) ==
    /\ pc = "store_ready"
    /\ output' = Output("aggregate", <<>>, group_by, measures,
                        storage_aggregate_data(store, table, group_by, measures))
    /\ UNCHANGED <<pc, store, table, stored>>
    /\ UNCHANGED <<pipeline_vars, format_vars, detect_vars>>

NextStore ==
    \/ \E strategy \in StrategyNames : FinancialDataStore_init(strategy)
    \/ \E df \in Tables, column_metadata \in Metadata : add_dataset(df, column_metadata)
    \/ \E i \in 1..MaxRows, amount \in 1..2 : mutate_table(i, amount)
    \/ \E filters \in FilterLists : query_by_criteria(filters)
    \/ \E group_by \in GroupBys, measures \in Measures : aggregate_data(group_by, measures)

SpecStore == InitStore /\ [][NextStore]_vars

(***************************************************************************)
(* The detector is handed one column and asked for its type, or for its    *)
(* number confidence alone.                                                *)
(***************************************************************************)
Str_Amount == <<"A", "m", "o", "u", "n", "t">>

Str_Col == <<"C", "o", "l">>

Str_Date == <<"D", "a", "t", "e">>

Str_Category == <<"C", "a", "t", "e", "g", "o", "r", "y">>

ColumnNames == {Str_Amount, Str_Col, Str_Date, Str_Category}

Str_1_5 == <<"1", ".", "5">>

Str_50_Percent == <<"5", "0", "%">>

Str_Rent == <<"R", "e", "n", "t">>

\* text cells: numbers in several notations, dates, plain text, None
TextCells ==
    {StrCell(Str_1_5), StrCell(Str_Dollar_1234_56), StrCell(Str_50_Percent),
     StrCell(Str_Rent), StrCell(Str_Jan10), StrCell(Str_BadDate), NanCell}

\* floats: 0.0, 0.001, 1.5, NaN
NumberCells == {NumCell(0), NumCell(1), NumCell(1500), NanCell}

\* Timestamps at midnight, NaT
DateCells == {TsCell(0), TsCell(UnitsPerDay), NanCell}

ColumnsOver(cells) == UNION {[1..n -> cells] : n \in 0..MaxCells}

SeriesGiven ==
    {Series(column_name, cells) :
        column_name \in ColumnNames,
        cells \in ColumnsOver(TextCells) \cup ColumnsOver(NumberCells) \cup ColumnsOver(DateCells)}

InitDetect ==
    /\ pc = "column_given"
    /\ series \in SeriesGiven
    /\ detection = NoDetection
    /\ PipelineIdle /\ FormatIdle /\ StoreIdle

\* DataTypeDetector().detect_column_type(column_data, column_name)
detect_column_type(bare) ==
    /\ pc = "column_given"
    /\ detection' = detect_column_type_of(series.cells, series.name, bare)
    /\ pc' = "column_typed"
    /\ UNCHANGED <<series, pipeline_vars, format_vars, store_vars>>

\* DataTypeDetector()._detect_number_type(data, column_name)
score_number_type ==
    /\ pc = "column_given"
    /\ detection' = detect_number_type(series.cells, series.name)
    /\ pc' = "number_scored"
    /\ UNCHANGED <<series, pipeline_vars, format_vars, store_vars>>

NextDetect ==
    \/ \E bare \in BOOLEAN : detect_column_type(bare)
    \/ score_number_type

SpecDetect == InitDetect /\ [][NextDetect]_vars

(***************************************************************************)
(* Properties.                                                             *)
(***************************************************************************)
Results == reconciliation_results

Reconciled == pc = "analyzer_reconciled"

BankOf(txs) == OfType(txs, "Bank Statement")

MatchedLedger(ms) == {ms[i].ledger : i \in 1..Len(ms)}

MatchedBank(ms) == {ms[i].bank : i \in 1..Len(ms)}

NoDuplicates(lst) == \A i, j \in 1..Len(lst) : i # j => lst[i] # lst[j]

\* C1: after find_matching_transactions no ledger transaction instance and no
\* bank transaction is in more than one match, and a matched ledger
\* transaction has left the candidate pool.
C1_AtMostOneMatch ==
    Reconciled =>
        /\ \A i, j \in 1..Len(Results.matches) :
              i # j => /\ Results.matches[i].ledger # Results.matches[j].ledger
                       /\ Results.matches[i].bank # Results.matches[j].bank
        /\ MatchedLedger(Results.matches) \cap Range(Results.unmatched_ledger) = {}

\* two bank transactions matched two distinct ledger instances of equal field values
C1_Witness ==
    /\ Reconciled
    /\ Len(Results.matches) = 2
    /\ transactions[Results.matches[1].ledger] = transactions[Results.matches[2].ledger]

\* C2: after find_matching_transactions, len(matches) + len(unmatched_bank) is
\* the number of bank transactions, and every ledger transaction is either the
\* ledger side of one match or in unmatched_ledger, never both, never neither.
C2_Completeness ==
    Reconciled =>
        /\ Len(Results.matches) + Len(Results.unmatched_bank) = Len(BankOf(transactions))
        /\ MatchedLedger(Results.matches) \cup Range(Results.unmatched_ledger)
              = Range(LedgerPool(transactions))
        /\ MatchedLedger(Results.matches) \cap Range(Results.unmatched_ledger) = {}
        /\ NoDuplicates(Results.unmatched_ledger)
        /\ Len(Results.matches) + Len(Results.unmatched_ledger) = Len(LedgerPool(transactions))

\* a call that left a match, an unmatched bank and an unmatched ledger transaction
C2_Witness ==
    /\ Reconciled
    /\ Len(Results.matches) = 1
    /\ Len(Results.unmatched_bank) = 1
    /\ Len(Results.unmatched_ledger) = 1
    /\ Results.matches[1].ledger > Results.unmatched_ledger[1]

\* C3: the matches DataReconciler.reconcile_transactions returns hold no ledger
\* transaction instance twice and no bank transaction twice.
C3_ReconcilerAtMostOneMatch ==
    pc = "reconciled" =>
        \A i, j \in 1..Len(matches) :
            i # j => /\ matches[i].ledger # matches[j].ledger
                     /\ matches[i].bank # matches[j].bank

\* the calendar day of a timestamp, and the days between two calendar dates
CalendarDay(t) == t \div UnitsPerDay

DaysApart(t1, t2) == Abs(CalendarDay(t1) - CalendarDay(t2))

\* the pair is within both tolerances of the latest call
WithinBounds(b, l) ==
    /\ DaysApart(b.date, l.date) <= last_call.tolerance_days
    /\ Abs(b.amount - l.amount) <= last_call.amount_tolerance

\* a bank and a ledger transaction of equal descriptions, the only ones, within
\* both tolerances and scoring above the acceptance threshold
SolePair(bank, ledger) ==
    /\ Len(bank) = 1 /\ Len(ledger) = 1
    /\ bank[1].description = ledger[1].description
    /\ WithinBounds(bank[1], ledger[1])
    /\ 100 - DateWeight * DaysApart(bank[1].date, ledger[1].date)
           - Abs(bank[1].amount - ledger[1].amount) > Threshold

\* C4: in both reconcilers a candidate is eligible exactly when the dates are
\* at most tolerance_days days apart and the amounts differ by at most
\* amount_tolerance: no match lies beyond either bound, and a sole candidate
\* within both bounds (on the boundary included) is matched.
C4_ToleranceBoundary ==
    /\ Reconciled =>
          /\ \A i \in 1..Len(Results.matches) :
                WithinBounds(transactions[Results.matches[i].bank],
                             transactions[Results.matches[i].ledger])
          /\ (/\ BankOf(transactions) = <<1>>
              /\ LedgerPool(transactions) = <<2>>
              /\ SolePair(<<transactions[1]>>, <<transactions[2]>>))
                => Len(Results.matches) = 1
    /\ pc = "reconciled" =>
          /\ \A i \in 1..Len(matches) :
                WithinBounds(bank_transactions[matches[i].bank],
                             ledger_transactions[matches[i].ledger])
          /\ SolePair(bank_transactions, ledger_transactions) => Len(matches) = 1

Scenario ==
    /\ bank_data = ScenarioBank
    /\ ledger_data = ScenarioLedger
    /\ last_call.tolerance_days = 3
    /\ last_call.amount_tolerance = 1

\* C6: the bank transaction {2024-01-10, 150.00, "ACH Payment - Utilities"} and
\* the ledger transaction {2024-01-12, 150.00, "Utilities Payment"} with
\* tolerances 3 days and 0.01 give exactly one match, two days and 0.00 apart,
\* of positive description similarity.
C6_ScenarioMatch ==
    Scenario =>
        /\ Reconciled =>
              /\ Len(Results.matches) = 1
              /\ DaysApart(transactions[1].date, transactions[2].date) = 2
              /\ transactions[1].amount = transactions[2].amount
              /\ desc_score(transactions[1].description, transactions[2].description) > 0
        /\ pc = "reconciled" =>
              /\ Len(matches) = 1
              /\ DaysApart(bank_transactions[1].date, ledger_transactions[1].date) = 2
              /\ bank_transactions[1].amount = ledger_transactions[1].amount
              /\ description_similarity(bank_transactions[1].description,
                                        ledger_transactions[1].description)[1] > 0

\* C7: with no transaction on one side find_matching_transactions returns its
\* dictionary with no match and the other side unmatched as a whole.
C7_EmptySide ==
    Reconciled =>
        /\ Results.present
        /\ BankOf(transactions) = <<>> =>
              /\ Results.matches = <<>>
              /\ Results.unmatched_ledger = [i \in 1..Len(transactions) |-> i]
        /\ (\A i \in 1..Len(transactions) : transactions[i].transaction_type = "Bank Statement") =>
              /\ Results.matches = <<>>
              /\ Results.unmatched_bank = [i \in 1..Len(transactions) |-> i]

\* no bank transaction, two ledger transactions left unmatched
C7_Witness ==
    /\ Reconciled
    /\ BankOf(transactions) = <<>>
    /\ Len(Results.unmatched_ledger) = 2

\* the positions of the transactions of a type
Positions(txs, transaction_type) ==
    {i \in 1..Len(txs) : txs[i].transaction_type = transaction_type}

\* C8: a call of find_matching_transactions leaves self.transactions as it is
\* and replaces reconciliation_results by matches and unmatched lists that
\* cover every bank and every ledger transaction of the full list, whatever an
\* earlier call removed from its pool.
C8_ReadOnlyRecomputed ==
    [][pc' = "analyzer_reconciled" =>
          /\ transactions' = transactions
          /\ reconciliation_results'.present
          /\ MatchedBank(reconciliation_results'.matches)
                \cup Range(reconciliation_results'.unmatched_bank)
                = Positions(transactions, "Bank Statement")
          /\ MatchedLedger(reconciliation_results'.matches)
                \cup Range(reconciliation_results'.unmatched_ledger)
                = Positions(transactions, "Customer Ledger")
          /\ Len(reconciliation_results'.matches)
                + Len(reconciliation_results'.unmatched_ledger)
                = Cardinality(Positions(transactions, "Customer Ledger"))]_vars

\* a second call on the same analyzer matched both ledger transactions
C8_Witness ==
    /\ Reconciled
    /\ calls = 2
    /\ Len(Results.matches) = 2
    /\ Results.unmatched_ledger = <<>>

\* the cell reads as an amount / as a date
AmountReadable(cell) ==
    \/ cell.kind = "num"
    \/ cell.kind = "str" /\ float(Analyzer_cleaned(cell.s)).ok

DateReadable(cell) == ~isna(cell) /\ to_datetime(cell).ok

ReadableRows(df) ==
    Cardinality({k \in 1..Len(df) : AmountReadable(df[k]["Amount"])
                                    /\ DateReadable(df[k]["Date"])})

\* C9: parse_transactions emits no transaction for a row whose amount cell or
\* date cell cannot be parsed, and no transaction carries the value 0.0 put in
\* place of such a cell.
C9_UnparseableDropped ==
    pc = "analyzer_parsed" =>
        /\ Len(transactions) <= ReadableRows(bank_data) + ReadableRows(ledger_data)
        /\ \A i \in 1..Len(transactions) : transactions[i].amount # 0

\* the signed value of an amount cell: text in parentheses or with a leading
\* or trailing minus is negative
TrueAmount(cell) ==
    IF cell.kind = "num" THEN cell.v
    ELSE LET magnitude == float(Strip(cell.s, {"(", ")", "-"})).v
         IN IF Contains(cell.s, "(") \/ Contains(cell.s, "-") THEN -magnitude ELSE magnitude

SignedAmounts(parsed, df) ==
    \A i \in 1..Len(parsed) : parsed[i].amount = TrueAmount(df[parsed[i].row_number]["Amount"])

\* C10: every transaction parse_bank_statement and parse_customer_ledger emit
\* carries the signed value of its source cell: negative for an amount in
\* parentheses or with a trailing minus, positive for a positive amount.
C10_SignedAmount ==
    /\ SignedAmounts(bank_transactions, bank_data)
    /\ SignedAmounts(ledger_transactions, ledger_data)

Amount(cents) == [ok |-> TRUE, v |-> cents]

\* C11: parse_amount returns the numeric value of a valid amount string:
\* "$1,234.56" gives 1234.56, "(2,500.00)" gives -2500.00, "1234.56-" gives
\* -1234.56 and "€1.234,56" gives 1234.56.
C11_ParseAmount ==
    pc = "amount_parsed" =>
        /\ fp_value = Str_Dollar_1234_56 => fp_parsed = Amount(123456)
        /\ fp_value = Str_Paren_2500_00 => fp_parsed = Amount(-250000)
        /\ fp_value = Str_1234_56_Minus => fp_parsed = Amount(-123456)
        /\ fp_value = Str_Euro_1234_56 => fp_parsed = Amount(123456)

(***************************************************************************)
(* The store: what a query has to return.                                  *)
(***************************************************************************)
\* the table the store was given last
Latest == stored[Len(stored)]

\* a filter of a supported operator on a column of the table, with values
\* of the column's type
WellTyped(f) ==
    /\ f.column \in Range(StoreColumns)
    /\ Handled(f)
    /\ CASE f.operator = "in" -> /\ f.value.t = "list"
                                 /\ \A x \in f.value.v : x.t = ColumnType(f.column)
         [] f.operator = "between" -> f.value.t = ColumnType(f.column)
                                      /\ f.value2.t = ColumnType(f.column)
         [] OTHER -> f.value.t = ColumnType(f.column)

\* the rows that satisfy every filter
Satisfying(rows, filters) ==
    SelectSeq(rows, LAMBDA r : \A k \in 1..Len(filters) :
                                   Holds(r[filters[k].column], filters[k].column, filters[k]))

\* C12: in every backend a query with well-typed filters on columns of the
\* table returns, without raising, exactly the rows of the table stored last
\* that satisfy every filter.
C12_QueryReturnsSatisfying ==
    (/\ output.call = "query"
     /\ stored # <<>>
     /\ \A k \in 1..Len(output.filters) : WellTyped(output.filters[k]))
        => /\ output.kind = "table"
           /\ RowsBag(output.rows) = RowsBag(Satisfying(Latest, output.filters))

\* the call behind the last output, made again on the store st with the
\* caller's table as it is in caller
Again(st, caller) ==
    IF output.call = "query"
    THEN Output("query", output.filters, <<>>, <<>>, query_data(st, caller, output.filters))
    ELSE Output("aggregate", <<>>, output.group_by, output.measures,
                storage_aggregate_data(st, caller, output.group_by, output.measures))

\* a new store of the same strategy that was given the last table only,
\* with the metadata the last table came with
Fresh == store_data(NewStore(store.strategy, store.backend), Latest, store.metadata)

\* C13: once a store was given a second table, a query or an aggregation
\* returns what the same call returns on a new store of the same strategy
\* that was given the second table only (the caller's table unchanged).
C13_OnlyLatestTable ==
    (output.call # "none" /\ Len(stored) >= 2 /\ table = Latest)
        => output = Again(Fresh, table)

\* C14: a change the caller makes to its table after it handed the table
\* over changes no result: a query or an aggregation returns what the same
\* call returns with the caller's table as it was when it was handed over.
C14_StoreOwnsCopy ==
    (output.call # "none" /\ stored # <<>>)
        => Again(store, table) = Again(store, Latest)

\* a filter of the pandas backend raises inside the try: it reads an index
\* column, or it orders text against a number
Pandas_raises(st, rows, f) ==
    /\ f.column \in Range(StoreColumns)
    /\ Handled(f)
    /\ \/ f.column \in Range(st.index_names)
       \/ Malformed(f)
       \/ CompareRaises(rows, f.column, f)

RECURSIVE Pandas_fails(_, _, _, _)
Pandas_fails(st, rows, filters, k) ==
    /\ k <= Len(filters)
    /\ \/ Pandas_raises(st, rows, filters[k])
       \/ Pandas_fails(st, Pandas_filter(st, rows, filters[k]), filters, k + 1)

\* the backend fails to execute the query: a filter raises, or the SQL does
QueryFails(st, caller, filters) ==
    CASE st.backend = "PandasMultiIndexStorage" ->
             st.has_data /\ Pandas_fails(st, Data(st, caller), filters, 1)
      [] st.backend = "SQLiteStorage" -> SQLite_fails(st, FilterColumns(filters))
      [] st.backend = "DictionaryHashStorage" ->
             /\ st.data # <<>>
             /\ \E k \in 1..Len(filters) : /\ filters[k].column \in Range(StoreColumns)
                                           /\ Hash_raises(st, filters[k])

\* C15: no query raises, and a query the backend fails to execute returns
\* an empty table.
C15_FailureGivesEmptyTable ==
    (output.call = "query" /\ stored # <<>> /\ table = Latest)
        => /\ output.kind = "table"
           /\ QueryFails(store, table, output.filters) => output.rows = <<>>

\* C16: no aggregation raises; an aggregation that names a column the
\* stored table does not have returns an empty table, and one whose columns
\* all exist returns count, sum, min and max (and so the mean) of every
\* measure for every group.
C16_AggregateMissingColumn ==
    (output.call = "aggregate" /\ stored # <<>> /\ table = Latest)
        => /\ output.kind = "table"
           /\ output.rows =
                  IF \E c \in Range(output.group_by) \cup Range(output.measures) :
                         c \notin Range(StoreColumns)
                  THEN {}
                  ELSE IF output.group_by = <<>> THEN output.rows
                  ELSE Aggregate(Latest, output.group_by, output.measures)

ValidStrategies == {"pandas", "sqlite", "hash"}

\* C17: constructing the store with a name other than "pandas", "sqlite"
\* and "hash" raises ValueError and leaves no store that is ever given a
\* table or answers a call; each of the three names constructs its backend.
C17_UnknownStrategyFails ==
    pc \in {"store_ready", "store_failed"} =>
        /\ store.strategy \notin ValidStrategies =>
               /\ pc = "store_failed"
               /\ store.backend = "ValueError"
               /\ stored = <<>> /\ output = NoOutput
        /\ store.strategy \in ValidStrategies => pc = "store_ready"
        /\ store.strategy = "pandas" => store.backend = "PandasMultiIndexStorage"
        /\ store.strategy = "sqlite" => store.backend = "SQLiteStorage"
        /\ store.strategy = "hash" => store.backend = "DictionaryHashStorage"

C17_Witness == pc = "store_failed" /\ store.strategy = "redis"

(***************************************************************************)
(* The detector.                                                           *)
(***************************************************************************)
\* the names that contain no number keyword
PlainNames == {column_name \in ColumnNames : ~Indicated(column_name, number_indicators)}

\* C18: the number confidence of a column whose name contains a number
\* keyword is never below the number confidence of the same values under a
\* name without one: it is that confidence plus 0.3, capped at 1.0.
C18_NameHintNeverLowers ==
    (pc = "number_scored" /\ Indicated(series.name, number_indicators))
        => \A plain \in PlainNames :
               /\ detection.confidence >= detect_number_type(series.cells, plain).confidence
               /\ detection.confidence =
                      Min2(detect_number_type(series.cells, plain).confidence + NameBonus, Scale)

\* the hint raised the confidence of a column of text
C18_Witness ==
    /\ pc = "number_scored"
    /\ series.name = Str_Amount
    /\ dtype(series.cells) = "object"
    /\ detection.confidence > detect_number_type(series.cells, Str_Col).confidence

\* C19: the confidence detect_column_type returns lies between 0.0 and 1.0,
\* for empty and all-null columns, numeric, datetime and text columns, with
\* or without a keyword in the name.
C19_ConfidenceInRange ==
    pc = "column_typed" => detection.confidence >= 0 /\ detection.confidence <= Scale

\* a numeric column with a number keyword in its name: 0.9 + 0.3 is capped
C19_Witness ==
    /\ pc = "column_typed"
    /\ dtype(series.cells) = "float64"
    /\ Indicated(series.name, number_indicators)
    /\ detection = TypeDetectionResult("number", Scale)

(***************************************************************************)
(* The match find_matching_transactions emits for one bank transaction.    *)
(***************************************************************************)
\* the candidate pool when bank transaction b is processed: the ledger
\* transactions no bank transaction before b was matched with
PoolAt(b) ==
    SelectSeq(LedgerPool(transactions),
              LAMBDA l : \A i \in 1..Len(Results.matches) :
                             ~(Results.matches[i].bank < b /\ Results.matches[i].ledger = l))

DateDiff(b, l) == Abs(days(transactions[b].date, transactions[l].date))

AmountDiff(b, l) == Abs(transactions[b].amount - transactions[l].amount)

\* the candidates of the pool within both tolerances
Candidates(b) ==
    {l \in Range(PoolAt(b)) : /\ DateDiff(b, l) <= last_call.tolerance_days
                              /\ AmountDiff(b, l) <= last_call.amount_tolerance}

\* descriptionSimilarity - 10 * |dateDiffDays| - 100 * |amountDiff|, amounts in cents
Score(b, l) ==
    desc_score(transactions[b].description, transactions[l].description)
    - DateWeight * DateDiff(b, l) - (AmountWeight * AmountDiff(b, l)) \div 100

\* the scores of the candidates, as a function
Scores(b) == [l \in Candidates(b) |-> Score(b, l)]

MatchesOf(b) == {i \in 1..Len(Results.matches) : Results.matches[i].bank = b}

\* what is emitted for b, given the scores of its candidates
Emitted(b, scores) ==
    IF \A l \in DOMAIN scores : scores[l] <= Threshold
    THEN /\ MatchesOf(b) = {}
         /\ b \in Range(Results.unmatched_bank)
    ELSE /\ b \notin Range(Results.unmatched_bank)
         /\ Cardinality(MatchesOf(b)) = 1
         /\ \A i \in MatchesOf(b) :
                /\ Results.matches[i].ledger \in DOMAIN scores
                /\ Results.matches[i].score = scores[Results.matches[i].ledger]
                /\ \A l \in DOMAIN scores : scores[l] <= Results.matches[i].score

\* C20: for every bank transaction a match is emitted iff the greatest score
\* over the candidates of the current pool within both tolerances exceeds
\* 50; the match pairs it with a candidate of that score and carries the
\* score; otherwise the bank transaction is in unmatched_bank.
C20_BestCandidate ==
    Reconciled => \A b \in Range(BankOf(transactions)) : Emitted(b, Scores(b))

\* a match whose candidate was not the first acceptable one of the pool
C20_Witness ==
    /\ Reconciled
    /\ \E i \in 1..Len(Results.matches) :
           \E l \in Candidates(Results.matches[i].bank) :
               /\ l < Results.matches[i].ledger
               /\ Score(Results.matches[i].bank, l) > Threshold
               /\ Score(Results.matches[i].bank, l) < Results.matches[i].score

(***************************************************************************)
(* The acceptance threshold of DataReconciler.reconcile_transactions.      *)
(***************************************************************************)
\* C21: every match DataReconciler.reconcile_transactions returns has a
\* score greater than the acceptance threshold 50.
C21_ReconcilerThreshold ==
    pc = "reconciled" =>
        \A i \in 1..Len(matches) : Greater(matches[i].score, <<Threshold, 1>>)

(***************************************************************************)
(* Greedy matching against a one-to-one pairing of every bank transaction. *)
(***************************************************************************)
\* l is a candidate of b within both tolerances whose score exceeds 50,
\* whatever the pool
Acceptable(b, l) ==
    /\ DateDiff(b, l) <= last_call.tolerance_days
    /\ AmountDiff(b, l) <= last_call.amount_tolerance
    /\ Score(b, l) > Threshold

\* the one-to-one pairings of every bank transaction with an acceptable
\* ledger transaction
Pairings ==
    {f \in [Range(BankOf(transactions)) -> Range(LedgerPool(transactions))] :
        /\ \A b \in DOMAIN f : Acceptable(b, f[b])
        /\ \A b1, b2 \in DOMAIN f : b1 # b2 => f[b1] # f[b2]}

\* the match that claimed ledger transaction l before bank transaction b
\* was processed
ClaimedBefore(b, l) ==
    \E i \in 1..Len(Results.matches) :
        Results.matches[i].ledger = l /\ Results.matches[i].bank < b

\* C22: find_matching_transactions is greedy, not globally optimal: it can
\* leave a bank transaction unmatched although a one-to-one pairing matches
\* every bank transaction with an acceptable candidate, and it does so
\* exactly because bank transactions processed earlier have claimed every
\* acceptable candidate of the one left unmatched.
C22_GreedyNotOptimal ==
    Reconciled =>
        \A b \in Range(Results.unmatched_bank) :
            \A l \in Range(LedgerPool(transactions)) :
                Acceptable(b, l) => ClaimedBefore(b, l)

\* b1 is acceptable for l1 and l2 and takes l1, b2 is acceptable for l1 only
\* and stays unmatched, though pairing b1 with l2 and b2 with l1 matches both
C22_Witness ==
    /\ Reconciled
    /\ Pairings # {}
    /\ \E b2 \in Range(Results.unmatched_bank) :
           \E i \in 1..Len(Results.matches) :
               /\ Results.matches[i].bank < b2
               /\ Acceptable(b2, Results.matches[i].ledger)
               /\ \E l2 \in Range(Results.unmatched_ledger) :
                      /\ Acceptable(Results.matches[i].bank, l2)
                      /\ ~Acceptable(b2, l2)
                      /\ Score(Results.matches[i].bank, l2) < Results.matches[i].score

(***************************************************************************)
(* find_matching_transactions on the same transactions with the bank       *)
(* transactions in another order.  The bank transactions are the first     *)
(* entries of self.transactions; an order is a permutation p of their      *)
(* positions, and entry i of the reordered list is the instance p[i].      *)
(***************************************************************************)
Orders(n) == {p \in [1..n -> 1..n] : \A i, j \in 1..n : i # j => p[i] # p[j]}

Reordered(txs, p) ==
    [i \in 1..Len(txs) |-> IF i \in DOMAIN p THEN txs[p[i]] ELSE txs[i]]

\* the ledger transaction a result pairs with the bank transaction at
\* position b of its list, 0 when there is none
PartnerIn(res, b) ==
    IF \E i \in 1..Len(res.matches) : res.matches[i].bank = b
    THEN res.matches[CHOOSE i \in 1..Len(res.matches) : res.matches[i].bank = b].ledger
    ELSE 0

\* some ledger transaction is acceptable for b and for another bank transaction
Contested(b) ==
    \E l \in Range(LedgerPool(transactions)) :
        \E other \in Range(BankOf(transactions)) \ {b} :
            Acceptable(b, l) /\ Acceptable(other, l)

\* the result of the latest call, had the bank transactions come in order p
ResultsIn(p) ==
    MatchingResults(Reordered(transactions, p),
                    last_call.tolerance_days, last_call.amount_tolerance)

\* instance p[i] has another partner in the reordered run than in the run made
Repaired(p, res) ==
    {p[i] : i \in {k \in DOMAIN p : PartnerIn(res, k) # PartnerIn(Results, p[k])}}

\* C23: the result of find_matching_transactions depends on the order of
\* the bank transactions: reordering them, with the same ledger list and
\* tolerances, can change the ledger transaction paired with a given bank
\* transaction and the unmatched sets, and it changes the partner of a bank
\* transaction only if one of its acceptable candidates is contested by
\* another bank transaction (whichever comes first claims it).
C23_OrderDependent ==
    Reconciled =>
        \A p \in Orders(Len(BankOf(transactions))) :
            \A b \in Repaired(p, ResultsIn(p)) : Contested(b)

\* reordering changes a partner, unmatched_bank and unmatched_ledger
C23_Witness ==
    /\ Reconciled
    /\ \E p \in Orders(Len(BankOf(transactions))) :
           LET changed(res) ==
                   /\ \E i \in DOMAIN p :
                          /\ PartnerIn(res, i) # PartnerIn(Results, p[i])
                          /\ PartnerIn(res, i) # 0
                          /\ PartnerIn(Results, p[i]) # 0
                   /\ {p[res.unmatched_bank[k]] : k \in 1..Len(res.unmatched_bank)}
                          # Range(Results.unmatched_bank)
                   /\ Range(res.unmatched_ledger) # Range(Results.unmatched_ledger)
           IN changed(ResultsIn(p))

(***************************************************************************)
(* The comma rule of amount parsing.                                       *)
(***************************************************************************)
\* the digits that follow the last comma of a text
AfterComma(s) ==
    SubSeq(s, (CHOOSE i \in 1..Len(s) : s[i] = "," /\ \A j \in (i + 1)..Len(s) : s[j] # ",") + 1,
           Len(s))

\* the text with its commas resolved as stated: a decimal separator when
\* there is no '.', a single ',' and exactly two digits after it, a
\* thousands separator otherwise
CommaResolved(s) ==
    IF /\ Contains(s, ",") /\ ~Contains(s, ".") /\ Count(s, ",") = 1
       /\ Len(AfterComma(s)) = 2 /\ AllDigits(AfterComma(s))
    THEN CommaToDot(s)
    ELSE Strip(s, {","})

\* the strings of plain digits, commas and points among those given
PlainCommaStrings == {s \in CommaStrings : \A i \in 1..Len(s) : IsDigit(s[i]) \/ s[i] \in {",", "."}}

\* C24: amount parsing resolves commas by this rule for every input: with
\* both '.' and ',' the comma is a thousands separator; a single ',' alone
\* followed by exactly two digits is the decimal separator; in every other
\* case (one digit after it, three digits after it, several commas) the
\* comma is a thousands separator and is removed, so the amount parses to
\* its numeric value.
C24_CommaRule ==
    /\ pc = "amount_cleaned" /\ fp_value \in PlainCommaStrings =>
           /\ float(CommaResolved(fp_value)).ok
           /\ cleaned_amount = float(CommaResolved(fp_value)).v
    /\ pc = "amount_parsed" /\ fp_value \in PlainCommaStrings =>
           fp_parsed = float(CommaResolved(fp_value))

(***************************************************************************)
(* FormatParser.parse_date on the notations it lists.                      *)
(***************************************************************************)
\* C25: parse_date returns the date of the first pattern that parses:
\* "01/15/2024", "2024-01-15" and "Jan 2024" give the corresponding date,
\* "Q1-2024" gives 2024-03-01 and "Q4-2023" gives 2023-12-01.
C25_ParseDate ==
    pc = "date_parsed" =>
        /\ fp_value = Str_01_15_2024 => fp_date = Date(2024, 1, 15)
        /\ fp_value = Str_2024_01_15 => fp_date = Date(2024, 1, 15)
        /\ fp_value = Str_Jan_2024 => fp_date = Date(2024, 1, 1)
        /\ fp_value = Str_Q1_2024 => fp_date = Date(2024, 3, 1)
        /\ fp_value = Str_Q4_2023 => fp_date = Date(2023, 12, 1)

(***************************************************************************)
(* The priority among the three scores of detect_column_type.              *)
(***************************************************************************)
\* the result selected from the three scored results by the stated priority
Priority(date_result, number_result, string_result) ==
    IF date_result.confidence > Decisive THEN date_result
    ELSE IF number_result.confidence > Decisive THEN number_result
    ELSE IF /\ date_result.confidence >= number_result.confidence
            /\ date_result.confidence >= string_result.confidence
    THEN date_result
    ELSE IF number_result.confidence >= string_result.confidence THEN number_result
    ELSE string_result

\* the three results for the non-null values of the column given
Selected(bare) ==
    Priority(detect_date_type(dropna(series.cells), series.name, bare),
             detect_number_type(dropna(series.cells), series.name),
             detect_string_type(dropna(series.cells), series.name))

\* C26: for a column with a non-null value detect_column_type returns the
\* date result if the date confidence exceeds 0.7, else the number result
\* if the number confidence exceeds 0.7, else the result of the greatest
\* confidence, date before number before string on a tie; a confidence of
\* exactly 0.7 does not short-circuit.
C26_TypePriority ==
    (pc = "column_typed" /\ dropna(series.cells) # <<>>)
        => \E bare \in BOOLEAN : detection = Selected(bare)

\* a number confidence of exactly 0.7 did not decide: the string result of
\* confidence 0.8 was returned
C26_Witness ==
    /\ pc = "column_typed"
    /\ dropna(series.cells) # <<>>
    /\ detect_number_type(dropna(series.cells), series.name).confidence = Decisive
    /\ detection = detect_string_type(dropna(series.cells), series.name)
    /\ detection.confidence > Decisive

(***************************************************************************)
(* The same query on the three backends.                                   *)
(***************************************************************************)
\* what a new store of the named strategy, given the table stored last with
\* the metadata it came with, returns for the filters of the last query
QueryOn(strategy) ==
    query_data(store_data(NewStore(strategy, Backend(strategy)), Latest, store.metadata),
               Latest, output.filters)

\* C27: for the same stored table, metadata and filter list the pandas,
\* sqlite and hash backends return the same rows from a query, also when a
\* filter names a column the table does not have, uses an unknown operator,
\* or uses 'between' without value2.
C27_BackendsAgree ==
    (output.call = "query" /\ stored # <<>>)
        => \A strategy \in ValidStrategies :
               /\ QueryOn(strategy).kind = QueryOn("sqlite").kind
               /\ RowsBag(QueryOn(strategy).rows) = RowsBag(QueryOn("sqlite").rows)

(***************************************************************************)
(* The date-tolerance test with the two timestamps exchanged.              *)
(***************************************************************************)
\* abs((d2 - d1).days) for the pair whose abs((d1 - d2).days) is DateDiff
MirroredDateDiff(b, l) == Abs(days(transactions[l].date, transactions[b].date))

\* C28: the date-tolerance test is symmetric in its two timestamps, also
\* when they carry a time of day: abs((d1 - d2).days) <= t holds iff
\* abs((d2 - d1).days) <= t, so whether a bank/ledger pair is eligible, and
\* its penalty of 10 per day, does not depend on which of the two is later.
C28_DateToleranceSymmetric ==
    Reconciled =>
        \A b \in Range(BankOf(transactions)) :
            \A l \in Range(LedgerPool(transactions)) :
                /\ (DateDiff(b, l) <= last_call.tolerance_days)
                       <=> (MirroredDateDiff(b, l) <= last_call.tolerance_days)
                /\ DateDiff(b, l) * DateWeight = MirroredDateDiff(b, l) * DateWeight

(***************************************************************************)
(* Candidates of equal score, and pool members of equal field values.      *)
(***************************************************************************)
\* the ledger transaction at position k of the list DataReconciler is given
\* is within both tolerances of the bank transaction at position b
ReconcilerEligible(b, k) ==
    /\ Abs(days(bank_transactions[b].date, ledger_transactions[k].date))
           <= last_call.tolerance_days
    /\ Abs(bank_transactions[b].amount - ledger_transactions[k].amount)
           <= last_call.amount_tolerance

\* the score DataReconciler gives the pair, as the exact fraction
ReconcilerScore(b, k) ==
    LET sim == description_similarity(bank_transactions[b].description,
                                      ledger_transactions[k].description)
        penalty == Abs(days(bank_transactions[b].date, ledger_transactions[k].date))
                       * DateWeight
                   + (Abs(bank_transactions[b].amount - ledger_transactions[k].amount)
                          * AmountWeight) \div 100
    IN <<sim[1] - sim[2] * penalty, sim[2]>>

\* C29: among the eligible candidates of the greatest score both
\* reconcilers select the one earliest in the current ledger order, the
\* strict '>' never replacing the chosen candidate by a later one of equal
\* score; and in find_matching_transactions the instance removed from the
\* pool is the instance recorded in the match, also when another pool
\* member has equal field values.
C29_EarliestOfEqualScore ==
    /\ Reconciled =>
           \A i \in 1..Len(Results.matches) :
               /\ \A c \in Candidates(Results.matches[i].bank) :
                      c < Results.matches[i].ledger
                          => Score(Results.matches[i].bank, c) < Results.matches[i].score
               /\ Results.matches[i].ledger \notin Range(Results.unmatched_ledger)
               /\ \A c \in Range(LedgerPool(transactions)) \ MatchedLedger(Results.matches) :
                      transactions[c] = transactions[Results.matches[i].ledger]
                          => c \in Range(Results.unmatched_ledger)
    /\ pc = "reconciled" =>
           \A i \in 1..Len(matches) :
               \A k \in 1..(matches[i].ledger - 1) :
                   ReconcilerEligible(matches[i].bank, k)
                       => Greater(matches[i].score, ReconcilerScore(matches[i].bank, k))

\* two pool members of equal field values were candidates of the greatest
\* score: the earlier one is in the match, the later one is still in the pool
C29_Witness ==
    /\ Reconciled
    /\ \E i \in 1..Len(Results.matches) :
           \E c \in Candidates(Results.matches[i].bank) :
               /\ c > Results.matches[i].ledger
               /\ transactions[c] = transactions[Results.matches[i].ledger]
               /\ Score(Results.matches[i].bank, c) = Results.matches[i].score
               /\ c \in Range(Results.unmatched_ledger)

(***************************************************************************)
(* A store that was never given a table.                                   *)
(***************************************************************************)
\* C30: on a newly constructed store that was never given a table, a query
\* with any filter list and an aggregation with any column lists return an
\* empty table and do not raise, in each of the three backends.
C30_FreshStoreEmpty ==
    (output.call # "none" /\ stored = <<>>)
        => /\ output.kind = "table"
           /\ output.call = "query" => output.rows = <<>>
           /\ output.call = "aggregate" => output.rows = {}

====
